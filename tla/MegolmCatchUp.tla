--------------------------- MODULE MegolmCatchUp ---------------------------
(***************************************************************************)
(* The two ways to advance a Megolm ratchet.  The sender of a group        *)
(* advances by one (megolm_advance), the receivers by any distance         *)
(* (megolm_advance_to), and both must get the same keys.                   *)
(***************************************************************************)
EXTENDS Megolm

CONSTANTS
  Starts,   \* bound: the counters to start from
  MaxSteps  \* bound: single steps in all

ASSUME CatchUpConstants ==
  /\ Starts \subseteq 0..(Counters - 1)
  /\ MaxSteps \in Nat

VARIABLES
  ahead,   \* the ratchet that goes by single steps
  behind,  \* the ratchet that follows it
  lag,     \* the steps it is behind
  steps    \* single steps so far

CatchUpVars == <<ahead, behind, lag, steps>>

CatchUpInit ==
  /\ \E counter \in Starts : ahead = megolm_init(RandomData("R"), counter)
  /\ behind = ahead
  /\ lag = 0
  /\ steps = 0

(* A ratchet that is a whole turn behind cannot be told from one that is   *)
(* not behind at all.                                                      *)
Advance ==
  /\ steps < MaxSteps
  /\ lag < Counters - 1
  /\ ahead' = megolm_advance(ahead)
  /\ lag' = lag + 1
  /\ steps' = steps + 1
  /\ UNCHANGED behind

CatchUp(distance) ==
  /\ distance <= lag
  /\ behind' = megolm_advance_to(behind, (behind.counter + distance) % Counters)
  /\ lag' = lag - distance
  /\ UNCHANGED <<ahead, steps>>

CatchUpNext == Advance \/ \E distance \in 0..lag : CatchUp(distance)

CatchUpSpec == CatchUpInit /\ [][CatchUpNext]_CatchUpVars

(* Type invariant: four hash values, and a counter that wraps around. *)
CatchUpTypeOK ==
  \A m \in {ahead, behind} :
    /\ DOMAIN m.data = Part
    /\ m.counter \in 0..(Counters - 1)

(* However many jumps it takes, and whether or not the counter wraps in    *)
(* between: at the same step both ratchets have the same values.           *)
JumpsAgree == lag = 0 => behind = ahead

(* No ratchet value can be had from a later one: neither megolm_advance    *)
(* nor megolm_advance_to leaves all the values that a key is made of.      *)
OneWay ==
  [][/\ ahead' # ahead => ~ Derivable(Range(ahead'.data), ahead.data)
     /\ behind' # behind => ~ Derivable(Range(behind'.data), behind.data)]_CatchUpVars

============================================================================
