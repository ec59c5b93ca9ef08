------------------------------ MODULE Handlers ------------------------------
(***************************************************************************)
(* What the models of the smaller services share: requests run in slots,   *)
(* one awaited statement per action, and may end between two of them.      *)
(***************************************************************************)
CONSTANTS
    Request,   \* slots for requests that are under way together
    MayFail    \* requests may end between two statements: an error, a crash

ASSUME FailAssumption == MayFail \in BOOLEAN
=============================================================================
