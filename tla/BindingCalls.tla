----------------------------- MODULE BindingCalls -----------------------------
(***************************************************************************)
(* An application uses one object of a binding: it makes it, calls its     *)
(* methods in any order, and gives it up.  Methods run step by step (see   *)
(* BindingScripts), every step may fail the way the code lets it fail, and *)
(* the module follows what is held, which secrets lie about and what the   *)
(* caller is told.                                                         *)
(***************************************************************************)
EXTENDS BindingScripts, Bags

(* Bindings[class][name] is the script of a method.                        *)
(* The rest are the places where the code is known to do otherwise, as     *)
(* triples of a class, a method and a buffer or step; README.md lists them. *)
CONSTANTS Bindings, KnownKept, KnownUnsaid, KnownUnwiped, KnownLost

VARIABLES
  class,      \* the class of the object
  handle,     \* "absent", "live" or "released"
  method,     \* the method that runs, or the last one
  script,     \* its script
  body,       \* what is left of its body
  cleanup,    \* what is left of its cleanup
  checked,    \* the arguments it found to be there
  held,       \* the bag of buffers that are allocated
  dirty,      \* the secrets that have not been cleared
  failed,     \* how the body was left: "no", "said", "silent" or "unnoticed"
  botched,    \* the steps of the call that failed
  advanced,   \* the library calls that moved the object on for good
  outcome     \* "none" while the call runs; then what the caller sees

vars == << class, handle, method, script, body, cleanup, checked, held, dirty, failed,
           botched, advanced, outcome >>

Idle == outcome # "none"

Init ==
  /\ class \in DOMAIN Bindings
  /\ handle = "absent"
  /\ method = "" /\ script = Method(<< >>, << >>)
  /\ body = << >> /\ cleanup = << >>
  /\ checked = {} /\ held = EmptyBag /\ dirty = {}
  /\ failed = "no" /\ botched = {} /\ advanced = {}
  /\ outcome = "ok"

(* The application calls a method: one that makes the object when it has   *)
(* none, any other when it has one, be it released.                        *)
Begin(m) ==
  /\ Idle
  /\ method' = m
  /\ script' = Bindings[class][m]
  /\ Makes(script') <=> handle = "absent"
  /\ body' = script'.body /\ cleanup' = script'.cleanup
  /\ checked' = {} /\ held' = EmptyBag /\ dirty' = {}
  /\ failed' = "no" /\ botched' = {} /\ advanced' = {}
  /\ outcome' = "none"
  /\ UNCHANGED << class, handle >>

(* The native object is needed and there, or needed and gone; an argument  *)
(* that was there once is there; every other step can pass, and can fail   *)
(* unless it never does.                                                   *)
NeedsObject(s) == s.op = "need" /\ s.on = "object"
CanPass(s) == NeedsObject(s) => handle = "live"
CanFail(s) ==
  IF NeedsObject(s) THEN handle # "live"
  ELSE s.fails # "never" /\ ~(s.op = "need" /\ s.on \in checked)

Allocates(s) == s.op \in {"take", "room", "random", "object"}

(* The buffer a step fills. *)
Filled(s) == CASE s.op \in {"call", "advance"} -> {s.out}
               [] s.op \in {"take", "copy", "random"} -> {s.on}
               [] OTHER -> {}

(* The first step of the body passes. *)
Pass ==
  /\ ~Idle /\ body # << >>
  /\ \E s \in { Head(body) } :
       /\ CanPass(s)
       /\ checked' = IF s.op = "need" THEN checked \cup {s.on} ELSE checked
       /\ held' = IF Allocates(s) THEN held (+) SetToBag({s.on}) ELSE held
       /\ dirty' = IF s.op = "wipe" THEN dirty \ {s.on}
                   ELSE dirty \cup (Filled(s) \cap SecretsOf(script))
       /\ advanced' = IF s.op = "advance" THEN advanced \cup {s.on} ELSE advanced
       /\ handle' = IF s.op = "destroy" THEN s.on ELSE handle
  /\ body' = Tail(body)
  /\ UNCHANGED << class, method, script, cleanup, failed, botched, outcome >>

(* It fails.  The body is left, or goes on.  A buffer that random bytes    *)
(* were meant for may have been allocated.                                 *)
Fail ==
  /\ ~Idle /\ body # << >>
  /\ \E s \in { Head(body) } :
       /\ CanFail(s) /\ s.fails \in {"said", "silent", "unnoticed", "ignored"}
       /\ failed' = IF s.fails = "ignored" THEN failed ELSE s.fails
       /\ body' = IF s.fails = "ignored" THEN Tail(body) ELSE << >>
       /\ botched' = botched \cup {s.on}
       /\ held' \in { held } \cup
                    { held (+) SetToBag({r}) : r \in IF s.op = "random" THEN {s.out} ELSE {} }
  /\ UNCHANGED << class, handle, method, script, cleanup, checked, dirty, advanced, outcome >>

(* It fails, the code goes on with a null pointer, and the process dies:   *)
(* the application begins again.                                           *)
Crash ==
  /\ ~Idle /\ body # << >>
  /\ CanFail(Head(body)) /\ Head(body).fails = "crash"
  /\ handle' = "absent"
  /\ method' = "" /\ script' = Method(<< >>, << >>)
  /\ body' = << >> /\ cleanup' = << >>
  /\ checked' = {} /\ held' = EmptyBag /\ dirty' = {}
  /\ failed' = "no" /\ botched' = {} /\ advanced' = {}
  /\ outcome' = "crashed"
  /\ UNCHANGED class

(* One step of the cleanup. *)
CleanUp ==
  /\ ~Idle /\ body = << >> /\ cleanup # << >>
  /\ \E s \in { Head(cleanup) } :
       /\ held' = IF s.op = "free" \/ (s.op = "discard" /\ failed # "no")
                  THEN held (-) SetToBag({s.on}) ELSE held
       /\ dirty' = IF s.op = "wipe" THEN dirty \ {s.on} ELSE dirty
  /\ cleanup' = Tail(cleanup)
  /\ UNCHANGED << class, handle, method, script, body, checked, failed, botched, advanced, outcome >>

(* What the caller sees. *)
Answer == CASE failed = "said" -> script.said
            [] failed = "silent" -> "no"
            [] OTHER -> "ok"

(* The call returns; an object it made becomes the application's. *)
Return ==
  /\ ~Idle /\ body = << >> /\ cleanup = << >>
  /\ outcome' = Answer
  /\ IF Makes(script) /\ Answer = "ok"
     THEN handle' = "live" /\ held' = held (-) SetToBag({"object"})
     ELSE UNCHANGED << handle, held >>
  /\ UNCHANGED << class, method, script, body, cleanup, checked, dirty, failed, botched, advanced >>

Next == (\E m \in DOMAIN Bindings[class] : Begin(m)) \/ Pass \/ Fail \/ Crash \/ CleanUp \/ Return

Spec == Init /\ [][Next]_vars
-----------------------------------------------------------------------------
Deviations(known) == { k[3] : k \in { t \in known : t[1] = class /\ t[2] = method } }

(* What a call allocated for itself is released when it returns, on every  *)
(* path out of it: olm_jni_helper.cpp, the "free alloc" parts of the JNI   *)
(* functions, the finally blocks of olm_post.js.                           *)
NothingKept == Idle => BagToSet(held) \subseteq Deviations(KnownKept)

(* A caller that is told of success got what it asked for: no step of the  *)
(* call failed.                                                            *)
SuccessIsReal == outcome = "ok" => botched \subseteq Deviations(KnownUnsaid)

(* A buffer that a method clears when it succeeds (keys, random bytes,     *)
(* plaintexts) is cleared on every path.                                   *)
SecretsWiped == Idle => dirty \subseteq Deviations(KnownUnwiped)

(* When the library has moved a ratchet on, the message is given to the    *)
(* caller: it cannot be encrypted or decrypted a second time.              *)
NothingLost == Idle /\ outcome # "ok" => advanced \subseteq Deviations(KnownLost)
=============================================================================
