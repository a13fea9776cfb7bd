---------------------------- MODULE LeaseContract ----------------------------
(***************************************************************************)
(* What the job queue promises its users, without tokens, deadlines or     *)
(* heartbeats: a submitted job waits, is leased to one lane at a time, and *)
(* is closed once.  Only the lane that holds the lease closes the job or   *)
(* puts it back; a lease without a holder can be taken over; anyone may    *)
(* cancel jobs.                                                            *)
(***************************************************************************)
CONSTANTS Jobs, Lanes, Nobody

VARIABLES stage, holder
contractVars == <<stage, holder>>

Init ==
  /\ stage = [j \in Jobs |-> "absent"]
  /\ holder = [j \in Jobs |-> Nobody]

Submit(j) ==
  /\ stage[j] = "absent"
  /\ stage' = [stage EXCEPT ![j] = "waiting"]
  /\ UNCHANGED holder

(* Also from another holder, whose lease has lapsed. *)
Lease(j, w) ==
  /\ stage[j] \in {"waiting", "leased"}
  /\ \A i \in Jobs : holder[i] # w
  /\ stage' = [stage EXCEPT ![j] = "leased"]
  /\ holder' = [holder EXCEPT ![j] = w]

PutBack(j, w) ==
  /\ stage[j] = "leased" /\ holder[j] = w
  /\ stage' = [stage EXCEPT ![j] = "waiting"]
  /\ holder' = [holder EXCEPT ![j] = Nobody]

Close(j, w) ==
  /\ stage[j] = "leased" /\ holder[j] = w
  /\ stage' = [stage EXCEPT ![j] = "closed"]
  /\ holder' = [holder EXCEPT ![j] = Nobody]

(* The holder dies; the lease stays until somebody takes it over. *)
Abandon(j) ==
  /\ stage[j] = "leased" /\ holder[j] # Nobody
  /\ holder' = [holder EXCEPT ![j] = Nobody]
  /\ UNCHANGED stage

Cancel(S) ==
  /\ \A j \in S : stage[j] \in {"waiting", "leased", "closed"}
  /\ stage' = [j \in Jobs |-> IF j \in S THEN "cancelled" ELSE stage[j]]
  /\ holder' = [j \in Jobs |-> IF j \in S THEN Nobody ELSE holder[j]]

Next ==
  \/ \E j \in Jobs :
       \/ Submit(j) \/ Abandon(j)
       \/ \E w \in Lanes : Lease(j, w) \/ PutBack(j, w) \/ Close(j, w)
  \/ \E S \in SUBSET Jobs : Cancel(S)

Spec == Init /\ [][Next]_contractVars
=============================================================================
