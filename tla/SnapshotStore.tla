--------------------------- MODULE SnapshotStore ---------------------------
(***************************************************************************)
(* What cachedb promises its users, without files: a store that is always  *)
(* absent or complete, sessions that see one unchanging snapshot plus      *)
(* their own additions, and a commit that replaces the whole store by that *)
(* snapshot and those additions in one step.  It promises no more than     *)
(* that: a commit of one session may overwrite the commit of another       *)
(* (FirstCommitterWins is the stronger promise of the header comment).     *)
(***************************************************************************)
CONSTANTS
    Procs, Keys, None,
    Torn     \* TRUE: a commit may leave a store that nobody can read

VARIABLES
    store,   \* None, or the keys of the current database
    view,    \* snapshot of each session, None when it has none
    added    \* its additions

storeVars == <<store, view, added>>

Contents == IF store = None THEN {} ELSE store

Init ==
    /\ store \in {None} \cup SUBSET Keys
    /\ view = [p \in Procs |-> None]
    /\ added = [p \in Procs |-> {}]

(* A session starts from the current contents, or from nothing.            *)
Open(p) ==
    /\ view[p] = None
    /\ \E v \in {Contents, {}} : view' = [view EXCEPT ![p] = v]
    /\ UNCHANGED <<store, added>>

Add(p, k) ==
    /\ view[p] # None
    /\ k \notin view[p] \cup added[p]
    /\ added' = [added EXCEPT ![p] = @ \cup {k}]
    /\ UNCHANGED <<store, view>>

Finish(p) ==
    /\ view[p] # None
    /\ view' = [view EXCEPT ![p] = None]
    /\ added' = [added EXCEPT ![p] = {}]

Commit(p) ==
    /\ added[p] # {}
    /\ Finish(p)
    /\ store' = view[p] \cup added[p]

Abandon(p) == Finish(p) /\ UNCHANGED store

Spoil(p) ==
    /\ Torn
    /\ added[p] # {}
    /\ Finish(p)
    /\ store' = None

Remove == store' = None /\ UNCHANGED <<view, added>>

Next ==
    \/ Remove
    \/ \E p \in Procs :
          \/ Open(p) \/ Commit(p) \/ Spoil(p) \/ Abandon(p)
          \/ \E k \in Keys : Add(p, k)

Spec == Init /\ [][Next]_storeVars

=============================================================================
