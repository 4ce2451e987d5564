---------------------------- MODULE EngineValue ----------------------------
(***************************************************************************)
(* What a JitoEngine and a BundleBuilder of src/engine.rs and              *)
(* src/bundle.rs are to the program that holds them, without the shared    *)
(* pointers: values.  Each handle holds an engine of its own, and what is  *)
(* done to one handle or draft is seen through no other.                   *)
(***************************************************************************)
EXTENDS Naturals

CONSTANTS
  Handles,  \* the variables of the program that may hold an engine
  FirstByte \* FirstByte[payer]: the first byte of the payer's public key

VARIABLES
  held, \* held[h]: the engine in h, or Nothing
  draft \* the BundleBuilder in the making, or Nothing

Nothing == [kind |-> "nothing"]

Init == held = [h \in Handles |-> Nothing] /\ draft = Nothing

\* Only h changes.
Only(h) == /\ held' = [held EXCEPT ![h] = held'[h]]
           /\ UNCHANGED draft

Obtain(h) == held[h] = Nothing /\ held'[h] # Nothing /\ Only(h)

Copy(g, h) == held[g] # Nothing /\ held[h] = Nothing /\ held'[h] = held[g] /\ Only(h)

Release(h) == held[h] # Nothing /\ held'[h] = Nothing /\ Only(h)

Repay(h) ==
  /\ held[h] # Nothing
  /\ \E payer \in DOMAIN FirstByte : held'[h] = [held[h] EXCEPT !.payer = payer]
  /\ Only(h)

\* A draft starts from the values its engine has now.
Draft(h) ==
  /\ held[h] # Nothing /\ draft = Nothing
  /\ draft' = [ client   |-> held[h].client,
                oracle   |-> held[h].oracle,
                payer    |-> held[h].payer,
                account  |-> FirstByte[held[h].payer],
                retry    |-> held[h].retry,
                strategy |-> held[h].strategy ]
  /\ UNCHANGED held

\* Its account, policy and strategy may be changed, where it goes and who pays
\* may not.
Adjust ==
  /\ draft # Nothing /\ draft' # Nothing
  /\ draft' = [draft EXCEPT !.account = draft'.account, !.retry = draft'.retry,
                            !.strategy = draft'.strategy]
  /\ UNCHANGED held

Finish == draft # Nothing /\ draft' = Nothing /\ UNCHANGED held

Next ==
  \/ \E h \in Handles : Obtain(h) \/ Release(h) \/ Repay(h) \/ Draft(h)
  \/ \E g, h \in Handles : Copy(g, h)
  \/ Adjust \/ Finish

Spec == Init /\ [][Next]_<<held, draft>>

=============================================================================
