---------------------------- MODULE TokenBucket ----------------------------
(***************************************************************************)
(* What a rate limit of a key promises: a bucket that is refilled at every *)
(* tick of the clock, by one capacity per window, never past its capacity, *)
(* and that may be left in debt.                                           *)
(*                                                                         *)
(* The bucket's level counts parts of a token, Window of them to a token,  *)
(* so that the refill of a tick is a whole number. The bucket knows the    *)
(* time to the grain of its clock only, and whoever looks at it may cost   *)
(* it the ticks of a grain that is not over.                               *)
(***************************************************************************)
EXTENDS Integers, FiniteSetsExt

CONSTANTS
    Calls,
    Window,    \* ticks in a window
    Grain,     \* ticks in a grain
    Cost,      \* tokens a call takes when it passes
    Charges    \* tokens that may be charged afterwards

VARIABLES
    cap,     \* the bucket's capacity, in tokens
    level,   \* what is in it
    passed   \* calls it let pass

bucketVars == <<cap, level, passed>>

Init ==
    /\ cap \in Nat
    /\ level = cap * Window
    /\ passed = {}

\* What a look at the bucket may cost.
Losses == 0..((Grain - 1) * cap)

\* A token must be there, whether or not it is taken.
Pass(c) ==
    /\ c \notin passed
    /\ \E lost \in Losses :
          /\ level - lost >= Window
          /\ level' = level - lost - Cost * Window
    /\ passed' = passed \cup {c}
    /\ UNCHANGED cap

Refuse ==
    /\ \E lost \in Losses :
          /\ level - lost < Window
          /\ level' = level - lost
    /\ UNCHANGED <<cap, passed>>

Charge(n) ==
    /\ \E lost \in Losses : level' = level - lost - n * Window
    /\ UNCHANGED <<cap, passed>>

Tick ==
    /\ level' = Min({cap * Window, level + cap})
    /\ UNCHANGED <<cap, passed>>

Next ==
    \/ \E c \in Calls : Pass(c)
    \/ Refuse
    \/ \E n \in Charges : Charge(n)
    \/ Tick

Step == [Next]_bucketVars
Spec == Init /\ [][Next]_bucketVars
=============================================================================
