--------------------------- MODULE BindingScripts ---------------------------
(***************************************************************************)
(* How the bindings (Android, JavaScript, Python, Objective-C) are         *)
(* written down.  A method of a binding is a straight line of checks,      *)
(* allocations and calls of the library, its body, that is left at the     *)
(* first step that fails, and a line of releases, its cleanup, that runs   *)
(* whichever way the body was left.  A method is a record of both and of   *)
(* what its caller sees.                                                   *)
(*                                                                         *)
(* What a step does when it fails is part of the step: "said" (an          *)
(* exception or an NSError will follow), "silent" (the body is left and    *)
(* the answer is empty or negative), "unnoticed" (the body is left and the *)
(* caller sees what it sees after success), "ignored" (the body goes on),  *)
(* "crash" (the result is used without a check and the process dies) and   *)
(* "never".                                                                *)
(***************************************************************************)
EXTENDS Sequences

Step(op, on, fails) == [op |-> op, on |-> on, out |-> "", fails |-> fails]

Silent(step) == [step EXCEPT !.fails = "silent"]
Unnoticed(step) == [step EXCEPT !.fails = "unnoticed"]
Unchecked(step) == [step EXCEPT !.fails = "crash"]
Ignored(step) == [step EXCEPT !.fails = "ignored"]
Sure(step) == [step EXCEPT !.fails = "never"]

(* The steps of a body: a check of an argument or of the native object; a   *)
(* copy of an argument, and room for an output, that have to be released;  *)
(* bytes that the language's collector owns; memory for the native object; *)
(* a call of the library, whose output goes to the buffer out, and one     *)
(* that moves the object on for good; a result given to the language; a    *)
(* buffer cleared on the way; the end of the native object, whose handle   *)
(* is in the state given from then on.                                     *)
Need(x) == Step("need", x, "said")
Take(r) == Step("take", r, "said")
Room(r) == Step("room", r, "said")
Copy(r) == Step("copy", r, "never")
Object == Step("object", "object", "said")
Call(f) == Step("call", f, "said")
CallFor(f, r) == [Call(f) EXCEPT !.out = r]
Advance(f, r) == [Step("advance", f, "said") EXCEPT !.out = r]
Give(r) == Step("give", r, "said")
WipeNow(r) == Step("wipe", r, "never")
Destroy(state) == Step("destroy", state, "never")

(* Random bytes in a buffer of their own.  When filling it fails the       *)
(* buffer may be there already; it is released with the others, or, when   *)
(* the release stands where only success arrives, by nobody.               *)
Random(r) == [Step("random", r, "said") EXCEPT !.out = r]
RandomHere(r) == [Random(r) EXCEPT !.out = "unfilled random"]

(* The steps of a cleanup, which do nothing when r is not there. *)
Free(r) == Step("free", r, "never")
Wipe(r) == Step("wipe", r, "never")
WipeAndFree(r) == << Wipe(r), Free(r) >>
Discard == Step("discard", "object", "never")

(* A method; and one whose caller catches the error and answers in the     *)
(* negative.                                                               *)
Method(body, cleanup) == [body |-> body, cleanup |-> cleanup, said |-> "error"]
Swallowed(method) == [method EXCEPT !.said = "no"]

(* More steps before the body, after it, and in the cleanup of a method. *)
Around(before, method, after, cleanup) ==
  [method EXCEPT !.body = before \o @ \o after, !.cleanup = @ \o cleanup]

StepsOf(method) == { method.body[i] : i \in DOMAIN method.body }
                     \cup { method.cleanup[i] : i \in DOMAIN method.cleanup }

(* Secrets are the buffers a method clears on some path, and those that    *)
(* hold keys or plaintexts whatever the method does with them.             *)
KeyMaterial == { "random", "key", "session key", "private key", "seed", "plaintext", "export" }
SecretsOf(method) ==
  KeyMaterial \cup { s.on : s \in { t \in StepsOf(method) : t.op = "wipe" } }

(* A method that makes the native object. *)
Makes(method) == \E s \in StepsOf(method) : s.op = "object"
=============================================================================
