------------------------- MODULE PoliciesPageProofs -------------------------
(***************************************************************************)
(* TLAPS proofs about PoliciesPage, for every set of policies, every       *)
(* initial table and every number of loads, forms, changes and changes by  *)
(* others.                                                                 *)
(*                                                                         *)
(* None of the properties is inductive: a list is what the calls under way *)
(* make of it.  The invariant follows a policy through them: before it is  *)
(* committed nothing knows of it (Unwritten, FreshIds), its create is one  *)
(* call, under way or answered (Pending), once it is heard of as deleted   *)
(* nothing under way names it (Gone), and while calls do not overlap each  *)
(* of them is the whole difference between list and table (Mirror).        *)
(***************************************************************************)
EXTENDS PoliciesPage, TLAPS

calls == requests \cup answers

Types ==
    /\ TypeOK
    /\ answer \in [1..MaxLoads -> {None} \cup SUBSET Policy]
    /\ mounted \in BOOLEAN /\ loading \in BOOLEAN /\ error \in BOOLEAN
    /\ saving \in BOOLEAN /\ disturbed \in BOOLEAN
    /\ forms \in Nat /\ changes \in Nat
    /\ committed \subseteq Policy /\ failed \subseteq Policy
    /\ removed \subseteq Policy /\ exposed \subseteq Policy /\ early \subseteq Policy

\* An answer under way names p.
Named(p) == \E n \in asked : answer[n] # None /\ p \in answer[n]

\* A call that is not under way has no answer.
Unasked == \A n \in 1..MaxLoads \ asked : answer[n] = None

\* A page that is closed shows nothing.
Left == ~mounted => shown = 0 /\ loading = FALSE

\* What was never in the table is nowhere on the page.
Unwritten ==
    \A p \in Policy \ committed : row[p] = "absent" /\ listed[p] = 0 /\ ~Named(p)

FreshIds ==
    \A p \in fresh : p \notin committed /\ p \notin failed /\ formOf[p] = 0

\* A create is one call, of a policy not yet written while it is under way;
\* a delete is of one that was; a delete that was committed stays so.
Pending ==
    /\ \A r \in Creates(requests) : r.policy \notin committed \cup fresh
    /\ \A r \in Deletes(requests) \cup answers : r.policy \in committed
    /\ \A a \in answers : a.heard /\ mounted
    /\ \A a \in Deletes(answers) : row[a.policy] = "absent"
    /\ \A r, s \in Creates(calls) : r.policy = s.policy => r = s
    /\ \A r \in Creates(calls) : r.heard => r.policy \notin failed
    /\ \A r \in requests : r.heard => mounted

\* A policy whose deletion was heard of is not in the table, and nothing
\* under way names it.
Gone ==
    \A p \in removed \ exposed :
        /\ p \in committed /\ row[p] = "absent" /\ listed[p] = 0 /\ ~Named(p)
        /\ \A a \in Creates(answers) : a.policy # p

\* A create still to be heard of is not listed yet, unless a load was first.
Twins ==
    /\ TwinsOnlyIfLoadedFirst
    /\ \A a \in Creates(answers) : a.policy \notin early => listed[a.policy] = 0

\* A form that may be saved has made nothing yet that was not reported as
\* failed.
Saves ==
    /\ \A p, q \in Policy \ failed :
           formOf[p] # 0 /\ formOf[p] = formOf[q] => p = q
    /\ CreateEnabled => \A p \in Policy \ failed : formOf[p] # modal

\* Between calls that do not overlap, the difference between list and table
\* is what the calls under way will make good.
Mirror ==
    mounted /\ ~disturbed =>
        /\ asked # {} =>
               /\ calls = {}
               /\ \A n \in asked : answer[n] # None =>
                      answer[n] = {p \in Policy : row[p] = "active"}
        /\ asked = {} /\ ~error =>
               /\ \A r \in requests : r.heard
               /\ \A a \in Creates(answers) :
                      row[a.policy] = a.row /\ listed[a.policy] = 0
               /\ \A r \in Creates(answers), s \in Deletes(calls) : r.policy # s.policy
               /\ \A p \in Policy : (\A a \in answers : a.policy # p) =>
                      /\ row[p] = "active" => listed[p] = 1
                      /\ row[p] = "absent" => listed[p] = 0
                      /\ row[p] = "inactive" => listed[p] <= 1

IInv ==
    /\ Types /\ Unasked /\ Left /\ Unwritten /\ FreshIds
    /\ Pending /\ Gone /\ Twins /\ Saves /\ Mirror

USE PolicyAssumption DEF gateway, list, dialog, loads, created, seen

-----------------------------------------------------------------------------

\* A load is sent.
LEMMA LoadKeeps ==
    ASSUME IInv, Open \/ Refresh
    PROVE  IInv'
<1> USE DEF IInv
<1>a. /\ made < MaxLoads /\ made' = made + 1
      /\ asked' = asked \cup {made'}
      /\ loading' = TRUE /\ error' = FALSE /\ mounted'
      /\ disturbed' = (requests \cup answers # {} \/ (disturbed /\ asked # {}))
      /\ UNCHANGED <<gateway, listed, answer, shown, dialog, changes, others, created, seen>>
      /\ mounted \/ asked = {}
  BY DEF Open, Refresh, load, Types, TypeOK
<1>b. answer[made'] = None
  BY <1>a DEF Unasked, Types, TypeOK
<1>c. \A p \in Policy : Named(p)' <=> Named(p)
  BY <1>a, <1>b DEF Named
<1>1. Types'
  <2>1. made' \in 1..MaxLoads /\ made' = made + 1
    BY <1>a DEF Types, TypeOK
  <2>2. asked' \subseteq 1..made'
    BY <1>a, <2>1 DEF Types, TypeOK
  <2>3. /\ disturbed' \in BOOLEAN /\ loading' \in BOOLEAN /\ error' \in BOOLEAN
        /\ mounted' \in BOOLEAN
    BY <1>a, Zenon
  <2>4. ~mounted' => asked' = {} /\ answers' = {} /\ modal' = 0
    BY <1>a, Zenon
  <2> QED
    BY <1>a, <2>1, <2>2, <2>3, <2>4 DEF Types, TypeOK
<1>2. Unasked'
  BY DEF Open, Refresh, load, Unasked
<1>3. Left'
  BY <1>a DEF Left
<1>4. Unwritten'
  BY <1>a, <1>c DEF Unwritten
<1>5. FreshIds'
  BY DEF Open, Refresh, load, FreshIds
<1>6. Pending'
  BY DEF Open, Refresh, load, Pending, Creates, Deletes, calls
<1>7. Gone'
  BY <1>a, <1>c DEF Gone, Creates, Types
<1>8. Twins'
  BY DEF Open, Refresh, load, Twins, TwinsOnlyIfLoadedFirst, Creates
<1>9. Saves'
  BY DEF Open, Refresh, load, Saves, CreateEnabled
<1>10. Mirror'
  <2> SUFFICES ASSUME ~disturbed'
               PROVE  /\ calls = {}
                      /\ \A n \in asked' : answer[n] # None =>
                             answer[n] = {p \in Policy : row[p] = "active"}
    BY <1>a DEF Mirror, calls
  <2>1. calls = {} /\ (asked = {} \/ ~disturbed)
    BY <1>a DEF calls
  <2>2. \A n \in asked : answer[n] # None =>
            answer[n] = {p \in Policy : row[p] = "active"}
    <3>1. CASE asked = {}
      BY <3>1
    <3>2. CASE asked # {}
      BY <1>a, <2>1, <3>2 DEF Mirror, Types, TypeOK
    <3> QED
      BY <3>1, <3>2
  <2> QED
    BY <1>a, <1>b, <2>1, <2>2
<1> QED
  BY <1>1, <1>2, <1>3, <1>4, <1>5, <1>6, <1>7, <1>8, <1>9, <1>10

\* The form is opened, closed or filled in.
LEMMA FormKeeps ==
    ASSUME IInv, New \/ Close \/ SubmitBlank \/ \E f \in Stored \cup {"blank"} : Type(f)
    PROVE  IInv'
<1> USE DEF IInv
<1>a. UNCHANGED <<gateway, mounted, list, loads, changes, others, created, seen, disturbed>>
  BY DEF New, Close, closed, SubmitBlank, Type
<1>b. \/ mounted /\ forms' = forms + 1 /\ modal' = forms' /\ form' = "blank" /\ saving' = FALSE
      \/ modal' = 0 /\ form' = "blank" /\ saving' = FALSE /\ forms' = forms
      \/ modal # 0 /\ form' \in Stored \cup {"blank"} /\ UNCHANGED <<modal, saving, forms>>
  BY DEF New, Close, closed, SubmitBlank, Type, CreateEnabled, Types, TypeOK
<1>1. Types'
  <2>1. /\ forms' \in Nat /\ modal' \in 0..forms' /\ formOf' \in [Policy -> 0..forms']
        /\ form' \in Stored \cup {"blank"}
    BY <1>a, <1>b DEF Types, TypeOK
  <2>2. saving' \in BOOLEAN
    BY <1>b DEF Types
  <2>3. mounted' \/ modal' = 0
    BY <1>a, <1>b DEF Types, TypeOK
  <2> QED
    BY <1>a, <2>1, <2>2, <2>3 DEF Types, TypeOK
<1>2. Unasked'
  BY <1>a DEF Unasked
<1>3. Left'
  BY <1>a DEF Left
<1>4. Unwritten'
  BY <1>a DEF Unwritten, Named
<1>5. FreshIds'
  BY <1>a DEF FreshIds
<1>6. Pending'
  BY <1>a DEF Pending, calls
<1>7. Gone'
  BY <1>a DEF Gone, Named
<1>8. Twins'
  BY <1>a DEF Twins, TwinsOnlyIfLoadedFirst
<1>9. Saves'
  BY <1>a, <1>b DEF Saves, CreateEnabled, Types, TypeOK
<1>10. Mirror'
  BY <1>a DEF Mirror, calls
<1> QED
  BY <1>1, <1>2, <1>3, <1>4, <1>5, <1>6, <1>7, <1>8, <1>9, <1>10

\* A form is saved.
LEMMA SubmitKeeps ==
    ASSUME IInv, Submit
    PROVE  IInv'
<1> USE DEF IInv
<1> DEFINE p == CHOOSE x \in fresh : TRUE
           r == [n |-> changes + 1, policy |-> p, row |-> form, heard |-> TRUE]
<1>a. /\ p \in fresh /\ fresh' = fresh \ {p}
      /\ formOf' = [formOf EXCEPT ![p] = modal]
      /\ requests' = requests \cup {r} /\ changes' = changes + 1
      /\ disturbed' = (disturbed \/ asked # {})
      /\ modal # 0 /\ ~saving /\ saving' = TRUE /\ err' = FALSE
      /\ UNCHANGED <<row, answers, mounted, list, modal, form, forms, loads, others,
                     committed, failed, seen>>
  BY DEF Submit, CreateEnabled, Send
<1>b. /\ r \in Request /\ r.policy = p /\ r.heard /\ r.row = form
      /\ form # "absent" /\ p \in Policy /\ mounted
  BY <1>a DEF Submit, Request, Stored, RowType, Types, TypeOK
<1> HIDE DEF p, r
<1>1. Types'
  <2>1. requests' \subseteq Request /\ fresh' \subseteq Policy /\ changes' \in Nat
        /\ formOf' \in [Policy -> 0..forms'] /\ modal' \in 0..forms'
    BY <1>a, <1>b DEF Types, TypeOK
  <2>2. disturbed' \in BOOLEAN /\ saving' \in BOOLEAN
    BY <1>a, Zenon
  <2> QED
    BY <1>a, <1>b, <2>1, <2>2 DEF Types, TypeOK
<1>2. Unasked'
  BY <1>a DEF Unasked
<1>3. Left'
  BY <1>a DEF Left
<1>4. Unwritten'
  BY <1>a DEF Unwritten, Named
<1>5. FreshIds'
  BY <1>a, <1>b DEF FreshIds, Types, TypeOK
<1>6. Pending'
  <2>1. p \notin committed /\ p \notin failed
    BY <1>a DEF FreshIds
  <2>2. \A s \in Creates(calls) : s.policy # p
    BY <1>a, <2>1 DEF Pending, Creates, Deletes, calls
  <2>3. Creates(calls') = Creates(calls) \cup {r} /\ Creates(requests') = Creates(requests) \cup {r}
        /\ Deletes(requests') = Deletes(requests)
    BY <1>a, <1>b DEF Creates, Deletes, calls
  <2> QED
    BY <1>a, <1>b, <2>1, <2>2, <2>3 DEF Pending
<1>7. Gone'
  BY <1>a DEF Gone, Named
<1>8. Twins'
  BY <1>a DEF Twins, TwinsOnlyIfLoadedFirst
<1>9. Saves'
  BY <1>a, <1>b DEF Saves, CreateEnabled, FreshIds, Types, TypeOK
<1>10. Mirror'
  <2> SUFFICES ASSUME mounted, ~disturbed, asked = {}, ~error
               PROVE  Mirror'
    BY <1>a DEF Mirror
  <2>1. p \notin committed
    BY <1>a DEF FreshIds
  <2>2. \A s \in Deletes(calls') : s \in Deletes(calls)
    BY <1>a, <1>b DEF Deletes, calls
  <2> QED
    BY <1>a, <1>b, <2>1, <2>2 DEF Mirror, Creates
<1> QED
  BY <1>1, <1>2, <1>3, <1>4, <1>5, <1>6, <1>7, <1>8, <1>9, <1>10

\* A delete is sent.
LEMMA DeleteKeeps ==
    ASSUME IInv, NEW p \in Policy, handleDelete(p)
    PROVE  IInv'
<1> USE DEF IInv
<1> DEFINE r == [n |-> changes + 1, policy |-> p, row |-> "absent", heard |-> TRUE]
<1>a. /\ mounted /\ listed[p] > 0
      /\ requests' = requests \cup {r} /\ changes' = changes + 1
      /\ disturbed' = (disturbed \/ asked # {})
      /\ UNCHANGED <<row, fresh, answers, mounted, list, dialog, loads, others,
                     created, seen>>
  BY DEF handleDelete, Send, RowShown
<1>b. /\ r \in Request /\ r.policy = p /\ r.heard /\ r.row = "absent"
  BY DEF Request, RowType, Types
<1>c. p \in committed
  BY <1>a DEF Unwritten
<1> HIDE DEF r
<1>1. Types'
  <2>1. requests' \subseteq Request /\ changes' \in Nat
    BY <1>a, <1>b DEF Types, TypeOK
  <2>2. disturbed' \in BOOLEAN
    BY <1>a, Zenon
  <2> QED
    BY <1>a, <2>1, <2>2 DEF Types, TypeOK
<1>2. Unasked'
  BY <1>a DEF Unasked
<1>3. Left'
  BY <1>a DEF Left
<1>4. Unwritten'
  BY <1>a DEF Unwritten, Named
<1>5. FreshIds'
  BY <1>a DEF FreshIds
<1>6. Pending'
  <2>1. /\ Creates(calls') = Creates(calls) /\ Creates(requests') = Creates(requests)
        /\ Deletes(requests') = Deletes(requests) \cup {r}
    BY <1>a, <1>b DEF Creates, Deletes, calls
  <2> QED
    BY <1>a, <1>b, <1>c, <2>1 DEF Pending
<1>7. Gone'
  BY <1>a DEF Gone, Named
<1>8. Twins'
  BY <1>a DEF Twins, TwinsOnlyIfLoadedFirst
<1>9. Saves'
  BY <1>a DEF Saves, CreateEnabled
<1>10. Mirror'
  <2> SUFFICES ASSUME mounted, ~disturbed, asked = {}, ~error
               PROVE  Mirror'
    BY <1>a DEF Mirror
  <2>1. \A s \in Deletes(calls') : s \in Deletes(calls) \/ s = r
    BY <1>a DEF Deletes, calls
  <2>2. \A a \in Creates(answers) : a.policy # p
    BY <1>a DEF Mirror
  <2> QED
    BY <1>a, <1>b, <2>1, <2>2 DEF Mirror
<1> QED
  BY <1>1, <1>2, <1>3, <1>4, <1>5, <1>6, <1>7, <1>8, <1>9, <1>10

\* The gateway answers a load.
LEMMA ReadKeeps ==
    ASSUME IInv, NEW n \in 1..MaxLoads, Read(n)
    PROVE  IInv'
<1> USE DEF IInv
<1>1. Types'
  BY DEF Read, Types, TypeOK
<1>2. Unasked'
  BY DEF Read, Unasked
<1>3. Left'
  BY DEF Read, Left
<1>4. Unwritten'
  BY DEF Read, Unwritten, Named
<1>5. FreshIds'
  BY DEF Read, FreshIds
<1>6. Pending'
  BY DEF Read, Pending, Creates, Deletes, calls
<1>7. Gone'
  BY DEF Read, Gone, Named, Creates
<1>8. Twins'
  BY DEF Read, Twins, TwinsOnlyIfLoadedFirst, Creates
<1>9. Saves'
  BY DEF Read, Saves, CreateEnabled
<1>10. Mirror'
  BY DEF Read, Mirror, Creates, Deletes, calls
<1> QED
  BY <1>1, <1>2, <1>3, <1>4, <1>5, <1>6, <1>7, <1>8, <1>9, <1>10

\* The gateway commits a create or a delete.
LEMMA CommitKeeps ==
    ASSUME IInv, NEW r \in requests, Commit(r)
    PROVE  IInv'
<1> USE DEF IInv
<1>1. Types'
  <2>1. r.policy \in Policy /\ r.row \in RowType /\ r \in Request
    BY DEF Request, Types, TypeOK
  <2>2. ~mounted' => answers' = {}
    BY DEF Commit, Pending, Types, TypeOK
  <2> QED
    BY <2>1, <2>2 DEF Commit, Types, TypeOK
<1>2. Unasked'
  BY DEF Commit, Request, Unasked
<1>3. Left'
  BY DEF Commit, Request, Left
<1>4. Unwritten'
  BY DEF Commit, Request, Unwritten, Named, Pending, Creates, Deletes, calls
<1>5. FreshIds'
  BY DEF Commit, Request, FreshIds, Pending, Creates, Deletes, calls
<1>6. Pending'
  BY DEF Commit, Request, Pending, Creates, Deletes, calls, Types, TypeOK
<1>7. Gone'
  BY DEF Commit, Request, Gone, Named, Creates, Pending, Deletes, calls
<1>8. Twins'
  BY DEF Commit, Request, Twins, TwinsOnlyIfLoadedFirst, Creates, Pending,
         Deletes, calls, Unwritten, Named, Types, TypeOK
<1>9. Saves'
  BY DEF Commit, Request, Saves, CreateEnabled
<1>10. Mirror'
  BY DEF Commit, Request, Mirror, Creates, Deletes, calls, Pending,
         Unwritten, Named, Types, TypeOK
<1> QED
  BY <1>1, <1>2, <1>3, <1>4, <1>5, <1>6, <1>7, <1>8, <1>9, <1>10

\* A request nobody waits for is dropped.
LEMMA LapseKeeps ==
    ASSUME IInv, NEW r \in requests, Lapse(r)
    PROVE  IInv'
<1> USE DEF IInv
<1>1. Types'
  BY DEF Lapse, Types, TypeOK
<1>2. Unasked'
  BY DEF Lapse, Unasked
<1>3. Left'
  BY DEF Lapse, Left
<1>4. Unwritten'
  BY DEF Lapse, Unwritten, Named
<1>5. FreshIds'
  BY DEF Lapse, FreshIds
<1>6. Pending'
  BY DEF Lapse, Pending, Creates, Deletes, calls
<1>7. Gone'
  BY DEF Lapse, Gone, Named, Creates
<1>8. Twins'
  BY DEF Lapse, Twins, TwinsOnlyIfLoadedFirst, Creates
<1>9. Saves'
  BY DEF Lapse, Saves, CreateEnabled
<1>10. Mirror'
  BY DEF Lapse, Mirror, Creates, Deletes, calls
<1> QED
  BY <1>1, <1>2, <1>3, <1>4, <1>5, <1>6, <1>7, <1>8, <1>9, <1>10

\* Somebody else changes the table.
LEMMA OthersKeep ==
    ASSUME IInv, NEW p \in Policy, NEW to \in RowType, OtherWrites(p, to)
    PROVE  IInv'
<1> USE DEF IInv
<1>1. Types'
  BY DEF OtherWrites, Types, TypeOK
<1>2. Unasked'
  BY DEF OtherWrites, Unasked
<1>3. Left'
  BY DEF OtherWrites, Left
<1>4. Unwritten'
  BY DEF OtherWrites, Unwritten, Named
<1>5. FreshIds'
  BY DEF OtherWrites, FreshIds
<1>6. Pending'
  BY DEF OtherWrites, Pending, Creates, Deletes, calls, Unwritten, Named
<1>7. Gone'
  BY DEF OtherWrites, Gone, Named, Creates
<1>8. Twins'
  BY DEF OtherWrites, Twins, TwinsOnlyIfLoadedFirst, Creates
<1>9. Saves'
  BY DEF OtherWrites, Saves, CreateEnabled
<1>10. Mirror'
  BY DEF OtherWrites, Mirror, Creates, Deletes, calls
<1> QED
  BY <1>1, <1>2, <1>3, <1>4, <1>5, <1>6, <1>7, <1>8, <1>9, <1>10

\* A load is answered.
LEMMA LoadedKeeps ==
    ASSUME IInv, NEW n \in 1..MaxLoads, ReceiveLoaded(n)
    PROVE  IInv'
<1> USE DEF IInv
<1>1. Types'
  BY DEF ReceiveLoaded, Over, Types, TypeOK
<1>2. Unasked'
  BY DEF ReceiveLoaded, Over, Unasked, Types, TypeOK
<1>3. Left'
  BY DEF ReceiveLoaded, Over, Left, Types, TypeOK
<1>4. Unwritten'
  BY DEF ReceiveLoaded, Over, Unwritten, Named
<1>5. FreshIds'
  BY DEF ReceiveLoaded, Over, FreshIds
<1>6. Pending'
  BY DEF ReceiveLoaded, Over, Pending, Creates, Deletes, calls
<1>7. Gone'
  BY DEF ReceiveLoaded, Over, Gone, Named, Creates, Types, TypeOK
<1>8. Twins'
  <2>1. TwinsOnlyIfLoadedFirst'
    BY DEF ReceiveLoaded, Over, TwinsOnlyIfLoadedFirst
  <2>2. ASSUME NEW a \in Creates(answers), a.policy \notin early'
        PROVE  listed'[a.policy] = 0
    <3>1. a.policy \in Policy /\ a.policy \notin answer[n]
      BY <2>2 DEF ReceiveLoaded, Creates, Request, Types, TypeOK
    <3> QED
      BY <3>1 DEF ReceiveLoaded
  <2> QED
    BY <2>1, <2>2 DEF ReceiveLoaded, Over, Twins
<1>9. Saves'
  BY DEF ReceiveLoaded, Over, Saves, CreateEnabled
<1>10. Mirror'
  BY DEF ReceiveLoaded, Over, Mirror, Creates, Deletes, calls
<1> QED
  BY <1>1, <1>2, <1>3, <1>4, <1>5, <1>6, <1>7, <1>8, <1>9, <1>10

\* A load has failed.
LEMMA LoadFailedKeeps ==
    ASSUME IInv, NEW n \in 1..MaxLoads, FailLoad(n)
    PROVE  IInv'
<1> USE DEF IInv
<1>1. Types'
  BY DEF FailLoad, Over, Types, TypeOK
<1>2. Unasked'
  BY DEF FailLoad, Over, Unasked, Types, TypeOK
<1>3. Left'
  BY DEF FailLoad, Over, Left
<1>4. Unwritten'
  BY DEF FailLoad, Over, Unwritten, Named
<1>5. FreshIds'
  BY DEF FailLoad, Over, FreshIds
<1>6. Pending'
  BY DEF FailLoad, Over, Pending, Creates, Deletes, calls
<1>7. Gone'
  <2>1. \A p \in Policy : Named(p)' => Named(p)
    BY DEF FailLoad, Over, Named, Types, TypeOK
  <2> QED
    BY <2>1 DEF FailLoad, Over, Gone, Types
<1>8. Twins'
  BY DEF FailLoad, Over, Twins, TwinsOnlyIfLoadedFirst, Creates
<1>9. Saves'
  BY DEF FailLoad, Over, Saves, CreateEnabled
<1>10. Mirror'
  BY DEF FailLoad, Over, Mirror, Creates, Deletes, calls
<1> QED
  BY <1>1, <1>2, <1>3, <1>4, <1>5, <1>6, <1>7, <1>8, <1>9, <1>10

\* A create is answered.
LEMMA CreatedKeeps ==
    ASSUME IInv, NEW r \in requests \cup answers, ReceiveCreated(r)
    PROVE  IInv'
<1> USE DEF IInv
<1>1. Types'
  <2>1. r \in answers /\ r.policy \in Policy /\ mounted
    BY DEF ReceiveCreated, Creates, Request, Types, TypeOK
  <2>2. listed' \in [Policy -> Nat]
    BY <2>1 DEF ReceiveCreated, Types, TypeOK
  <2>3. modal' = 0 /\ saving' = FALSE /\ forms' = forms
    BY DEF ReceiveCreated, closed
  <2>4. saving' \in BOOLEAN
    BY <2>3, Zenon
  <2>5. modal' \in 0..forms'
    BY <2>3 DEF Types
  <2> QED
    BY <2>4, <2>5, <2>1, <2>2, <2>3 DEF ReceiveCreated, closed, Types, TypeOK
<1>2. Unasked'
  BY DEF ReceiveCreated, closed, Creates, Request, Unasked
<1>3. Left'
  BY DEF ReceiveCreated, closed, Creates, Request, Left
<1>4. Unwritten'
  BY DEF ReceiveCreated, closed, Creates, Request, Unwritten, Named, Pending,
         Deletes, calls
<1>5. FreshIds'
  BY DEF ReceiveCreated, closed, Creates, Request, FreshIds
<1>6. Pending'
  BY DEF ReceiveCreated, closed, Creates, Request, Pending, Deletes, calls
<1>7. Gone'
  BY DEF ReceiveCreated, closed, Creates, Request, Gone, Named, Pending,
         Deletes, calls
<1>8. Twins'
  BY DEF ReceiveCreated, closed, Creates, Request, Twins,
         TwinsOnlyIfLoadedFirst, Pending, Deletes, calls
<1>9. Saves'
  BY DEF ReceiveCreated, closed, Creates, Request, Saves, CreateEnabled
<1>10. Mirror'
  BY DEF ReceiveCreated, closed, Creates, Request, Mirror, Deletes, calls,
         Pending, Types, TypeOK
<1> QED
  BY <1>1, <1>2, <1>3, <1>4, <1>5, <1>6, <1>7, <1>8, <1>9, <1>10

\* A delete is answered.
LEMMA DeletedKeeps ==
    ASSUME IInv, NEW r \in requests \cup answers, ReceiveDeleted(r)
    PROVE  IInv'
<1> USE DEF IInv
<1>1. Types'
  BY DEF ReceiveDeleted, Deletes, Creates, Filtered, Request, Types, TypeOK
<1>2. Unasked'
  BY DEF ReceiveDeleted, Deletes, Creates, Filtered, Request, Unasked
<1>3. Left'
  BY DEF ReceiveDeleted, Deletes, Creates, Filtered, Request, Left
<1>4. Unwritten'
  BY DEF ReceiveDeleted, Deletes, Creates, Filtered, Request, Unwritten,
         Named
<1>5. FreshIds'
  BY DEF ReceiveDeleted, Deletes, Creates, Filtered, Request, FreshIds
<1>6. Pending'
  BY DEF ReceiveDeleted, Deletes, Creates, Filtered, Request, Pending, calls
<1>7. Gone'
  BY DEF ReceiveDeleted, Deletes, Creates, Filtered, Request, Gone, Named,
         Pending, calls, Types, TypeOK
<1>8. Twins'
  BY DEF ReceiveDeleted, Deletes, Creates, Filtered, Request, Twins,
         TwinsOnlyIfLoadedFirst
<1>9. Saves'
  BY DEF ReceiveDeleted, Deletes, Creates, Filtered, Request, Saves,
         CreateEnabled
<1>10. Mirror'
  BY DEF ReceiveDeleted, Deletes, Creates, Filtered, Request, Mirror, calls,
         Pending, Types, TypeOK
<1> QED
  BY <1>1, <1>2, <1>3, <1>4, <1>5, <1>6, <1>7, <1>8, <1>9, <1>10

\* A create is reported as failed.
LEMMA CreateFailedKeeps ==
    ASSUME IInv, NEW r \in requests \cup answers, FailCreate(r)
    PROVE  IInv'
<1> USE DEF IInv
<1>1. Types'
  BY DEF FailCreate, Fails, Request, Types, TypeOK
<1>2. Unasked'
  BY DEF FailCreate, Fails, Request, Unasked
<1>3. Left'
  BY DEF FailCreate, Fails, Request, Left
<1>4. Unwritten'
  BY DEF FailCreate, Fails, Request, Unwritten, Named
<1>5. FreshIds'
  BY DEF FailCreate, Fails, Request, FreshIds, Pending, Creates, Deletes,
         calls
<1>6. Pending'
  <2> DEFINE s == [r EXCEPT !.heard = FALSE]
  <2> HIDE DEF s
  <2>1. /\ answers' = answers \ {r}
        /\ \A t \in requests' : (t \in requests /\ t # r) \/ (t = s /\ r \in requests)
    <3>1. CASE r \in requests
      BY <3>1 DEF FailCreate, Fails, s
    <3>2. CASE r \notin requests
      <4>1. requests' = requests /\ answers' = answers \ {r}
        BY <3>2 DEF FailCreate, Fails
      <4> QED
        BY <3>2, <4>1
    <3> QED
      BY <3>1, <3>2
  <2>2. /\ r \in Request /\ r.row # "absent" /\ r.heard
        /\ s.policy = r.policy /\ s.row = r.row /\ s.heard = FALSE
    BY DEF FailCreate, Fails, s, Request, Types, TypeOK
  <2>3. \A t \in Creates(requests') : t.policy \notin committed \cup fresh
    BY <2>1, <2>2 DEF Pending, Creates
  <2>4. \A t \in Deletes(requests') \cup answers' : t.policy \in committed
    BY <2>1, <2>2 DEF Pending, Deletes
  <2>5. \A t, u \in Creates(calls') : t.policy = u.policy => t = u
    BY <2>1, <2>2 DEF Pending, Creates, calls
  <2>6. \A t \in Creates(calls') : t.heard => t.policy \notin failed'
    <3>1. \A t \in Creates(calls') : t.heard => t \in Creates(calls) /\ t # r
      BY <2>1, <2>2 DEF Creates, calls
    <3>2. r \in Creates(calls)
      BY <2>2 DEF Creates, calls
    <3> QED
      BY <3>1, <3>2 DEF FailCreate, Pending
  <2>7. \A t \in requests' : t.heard => mounted'
    BY <2>1, <2>2 DEF FailCreate, Pending
  <2> QED
    BY <2>1, <2>3, <2>4, <2>5, <2>6, <2>7 DEF FailCreate, Pending, Deletes
<1>7. Gone'
  BY DEF FailCreate, Fails, Request, Gone, Named, Creates
<1>8. Twins'
  BY DEF FailCreate, Fails, Request, Twins, TwinsOnlyIfLoadedFirst, Creates
<1>9. Saves'
  BY DEF FailCreate, Fails, Request, Saves, CreateEnabled, Pending, Creates,
         Deletes, calls, Types, TypeOK
<1>10. Mirror'
  BY DEF FailCreate, Fails, Request, Mirror, Creates, Deletes, calls
<1> QED
  BY <1>1, <1>2, <1>3, <1>4, <1>5, <1>6, <1>7, <1>8, <1>9, <1>10

\* A delete is reported as failed.
LEMMA DeleteFailedKeeps ==
    ASSUME IInv, NEW r \in requests \cup answers, FailDelete(r)
    PROVE  IInv'
<1> USE DEF IInv
<1>1. Types'
  BY DEF FailDelete, Fails, Request, Types, TypeOK
<1>2. Unasked'
  BY DEF FailDelete, Fails, Request, Unasked
<1>3. Left'
  BY DEF FailDelete, Fails, Request, Left
<1>4. Unwritten'
  BY DEF FailDelete, Fails, Request, Unwritten, Named
<1>5. FreshIds'
  BY DEF FailDelete, Fails, Request, FreshIds
<1>6. Pending'
  BY DEF FailDelete, Fails, Request, Pending, Creates, Deletes, calls, Types,
         TypeOK
<1>7. Gone'
  BY DEF FailDelete, Fails, Request, Gone, Named, Creates
<1>8. Twins'
  BY DEF FailDelete, Fails, Request, Twins, TwinsOnlyIfLoadedFirst, Creates
<1>9. Saves'
  BY DEF FailDelete, Fails, Request, Saves, CreateEnabled
<1>10. Mirror'
  BY DEF FailDelete, Fails, Request, Mirror, Creates, Deletes, calls
<1> QED
  BY <1>1, <1>2, <1>3, <1>4, <1>5, <1>6, <1>7, <1>8, <1>9, <1>10

\* The page is left.
LEMMA LeaveKeeps ==
    ASSUME IInv, Leave
    PROVE  IInv'
<1> USE DEF IInv
<1>a. \A s \in requests' : \E r \in requests :
          s \in Request /\ s.policy = r.policy /\ s.row = r.row /\ ~s.heard /\ s.n = r.n
  BY DEF Leave, Request, Types, TypeOK
<1>1. Types'
  <2>1. requests' \subseteq Request /\ answers' = {}
    BY <1>a DEF Leave
  <2>2. modal' = 0 /\ saving' = FALSE /\ forms' = forms
    BY DEF Leave, closed
  <2>3. saving' \in BOOLEAN
    BY <2>2, Zenon
  <2>4. modal' \in 0..forms'
    BY <2>2 DEF Types
  <2> QED
    BY <2>3, <2>4, <2>1, <2>2 DEF Leave, closed, Types, TypeOK
<1>2. Unasked'
  BY DEF Leave, closed, Request, Unasked
<1>3. Left'
  BY DEF Leave, closed, Request, Left
<1>4. Unwritten'
  BY DEF Leave, closed, Request, Unwritten, Named
<1>5. FreshIds'
  BY DEF Leave, closed, Request, FreshIds
<1>6. Pending'
  <2>1. answers' = {} /\ UNCHANGED <<committed, fresh, failed>>
    BY DEF Leave
  <2>2. \A s, t \in Creates(requests') : s.policy = t.policy => s = t
    <3> SUFFICES ASSUME NEW s \in Creates(requests'), NEW t \in Creates(requests'),
                        s.policy = t.policy
                 PROVE  s = t
      OBVIOUS
    <3>1. PICK x \in requests : s = [x EXCEPT !.heard = FALSE] /\ x.row # "absent"
                                /\ s.policy = x.policy
      BY DEF Leave, Creates, Request, Types, TypeOK
    <3>2. PICK y \in requests : t = [y EXCEPT !.heard = FALSE] /\ y.row # "absent"
                                /\ t.policy = y.policy
      BY DEF Leave, Creates, Request, Types, TypeOK
    <3>3. x = y
      BY <3>1, <3>2 DEF Pending, Creates, calls
    <3> QED
      BY <3>1, <3>2, <3>3
  <2> QED
    BY <1>a, <2>1, <2>2 DEF Pending, Creates, Deletes, calls
<1>7. Gone'
  BY DEF Leave, closed, Request, Gone, Named, Creates
<1>8. Twins'
  BY DEF Leave, closed, Request, Twins, TwinsOnlyIfLoadedFirst, Creates
<1>9. Saves'
  BY DEF Leave, closed, Request, Saves, CreateEnabled
<1>10. Mirror'
  BY DEF Leave, closed, Request, Mirror, Creates, Deletes, calls
<1> QED
  BY <1>1, <1>2, <1>3, <1>4, <1>5, <1>6, <1>7, <1>8, <1>9, <1>10

-----------------------------------------------------------------------------

LEMMA InitIInv == Init => IInv
<1> SUFFICES ASSUME Init PROVE IInv
  OBVIOUS
<1>1. Types
  <2>1. /\ row \in [Policy -> RowType] /\ fresh \subseteq Policy
        /\ answer \in [1..MaxLoads -> {None} \cup SUBSET Policy]
        /\ formOf \in [Policy -> 0..forms] /\ listed \in [Policy -> Nat]
        /\ committed \subseteq Policy
    BY DEF Init
  <2>2. /\ mounted \in BOOLEAN /\ loading \in BOOLEAN /\ error \in BOOLEAN
        /\ saving \in BOOLEAN /\ disturbed \in BOOLEAN
    BY Zenon DEF Init
  <2> QED
    BY <2>1, <2>2 DEF Init, Types, TypeOK
<1>2. Unasked /\ Left /\ Unwritten /\ FreshIds
  BY DEF Init, Unasked, Left, Unwritten, Named, FreshIds
<1>3. Pending /\ Gone /\ Twins
  BY DEF Init, Pending, Creates, Deletes, calls, Gone, Twins, TwinsOnlyIfLoadedFirst
<1>4. Saves /\ Mirror
  BY DEF Init, Saves, CreateEnabled, Mirror
<1> QED
  BY <1>1, <1>2, <1>3, <1>4 DEF IInv

LEMMA StutterKeeps ==
    ASSUME IInv, UNCHANGED vars
    PROVE  IInv'
<1> USE DEF IInv, vars
<1>1. Types' /\ Unasked' /\ Left' /\ Unwritten' /\ FreshIds'
  BY DEF Types, TypeOK, Unasked, Left, Unwritten, Named, FreshIds
<1>2. Pending' /\ Gone' /\ Twins'
  BY DEF Pending, calls, Gone, Named, Twins, TwinsOnlyIfLoadedFirst
<1>3. Saves' /\ Mirror'
  BY DEF Saves, CreateEnabled, Mirror, calls
<1> QED
  BY <1>1, <1>2, <1>3

\* Every step keeps the invariant.
LEMMA NextIInv == IInv /\ [Next]_vars => IInv'
<1> SUFFICES ASSUME IInv, [Next]_vars PROVE IInv'
  OBVIOUS
<1>1. CASE Open \/ Refresh
  BY <1>1, LoadKeeps
<1>2. CASE Leave
  BY <1>2, LeaveKeeps
<1>3. CASE New \/ Close \/ SubmitBlank \/ \E f \in Stored \cup {"blank"} : Type(f)
  BY <1>3, FormKeeps
<1>4. CASE Submit
  BY <1>4, SubmitKeeps
<1>5. CASE \E p \in Policy : handleDelete(p)
  BY <1>5, DeleteKeeps
<1>6. CASE \E n \in 1..MaxLoads : Read(n)
  BY <1>6, ReadKeeps
<1>7. CASE \E r \in requests : Commit(r) \/ Lapse(r)
  BY <1>7, CommitKeeps, LapseKeeps
<1>8. CASE \E p \in Policy, to \in RowType : OtherWrites(p, to)
  BY <1>8, OthersKeep
<1>9. CASE HearLoad
  BY <1>9, LoadedKeeps, LoadFailedKeeps DEF HearLoad
<1>10. CASE HearChange
  BY <1>10, CreatedKeeps, DeletedKeeps, CreateFailedKeeps, DeleteFailedKeeps DEF HearChange
<1>11. CASE UNCHANGED vars
  BY <1>11, StutterKeeps
<1> QED
  BY <1>1, <1>2, <1>3, <1>4, <1>5, <1>6, <1>7, <1>8, <1>9, <1>10, <1>11 DEF Next

\* The inductive invariant holds in every run of the page.
THEOREM Invariant == Spec => []IInv
BY InitIInv, NextIInv, PTL DEF Spec

-----------------------------------------------------------------------------

\* The page, its calls and the table keep their types; a page that is closed
\* waits for nothing.
THEOREM TypeCorrect == Spec => []TypeOK
<1>1. IInv => TypeOK
  BY DEF IInv, Types
<1> QED
  BY <1>1, Invariant, PTL

\* A deletion that was heard of is not undone on the page by what comes later
\* (Policies.tsx:42-50), however many calls overlap.
THEOREM DeletedStay == Spec => []DeletedStayHidden
<1>1. IInv => DeletedStayHidden
  BY DEF IInv, Gone, DeletedStayHidden
<1> QED
  BY <1>1, Invariant, PTL

\* A policy has two rows only if a load listed it before the answer to its
\* create was appended (Policies.tsx:127).
THEOREM OneRowEach == Spec => []TwinsOnlyIfLoadedFirst
<1>1. IInv => TwinsOnlyIfLoadedFirst
  BY DEF IInv, Twins
<1> QED
  BY <1>1, Invariant, PTL

\* A form makes one policy, but for saves that were reported as failed
\* (Policies.tsx:154-167, 301-307).
THEOREM OneSave == Spec => []OneSavePerForm
<1>1. IInv => OneSavePerForm
  BY DEF IInv, Types, Saves, OneSavePerForm
<1> QED
  BY <1>1, Invariant, PTL

\* Without overlaps, failures and others at work the list the page keeps up
\* by itself is the one a load would show (Policies.tsx:31-50, 127).
THEOREM Mirrors == Spec => []MirrorsTable
<1>1. IInv => MirrorsTable
  <2> SUFFICES ASSUME IInv, mounted, asked = {}, calls = {}, ~error, ~disturbed,
                      NEW p \in Policy
               PROVE  /\ row[p] = "active" => listed[p] = 1
                      /\ row[p] = "absent" => listed[p] = 0
                      /\ row[p] = "inactive" => listed[p] <= 1
    BY DEF MirrorsTable, calls
  <2> QED
    BY DEF IInv, Mirror, calls
<1> QED
  BY <1>1, Invariant, PTL

-----------------------------------------------------------------------------
(* The page implements FetchView, but for its fairness. *)

LEMMA InitFetches == Init => View!Init
BY DEF Init, View!Init, View!Closed

\* Every step of the page is a step of the view, or changes nothing of it.
LEMMA NextFetches ==
    ASSUME IInv, [Next]_vars
    PROVE  [View!Next]_View!view
<1> USE DEF View!view
<1>1. CASE Open
  <2>1. View!Open
    BY <1>1 DEF Open, load, View!Open, View!Closed, IInv, Left, Types, TypeOK
  <2> QED
    BY <2>1 DEF View!Next
<1>2. CASE Refresh
  <2>1. View!Ask
    BY <1>2 DEF Refresh, load, View!Ask
  <2> QED
    BY <2>1 DEF View!Next
<1>3. CASE Leave
  <2>1. View!Leave
    BY <1>3 DEF Leave, View!Leave
  <2> QED
    BY <2>1 DEF View!Next
<1>4. CASE HearLoad
  <2>1. View!Hear
    BY <1>4 DEF HearLoad, ReceiveLoaded, FailLoad, Over, View!Hear
  <2> QED
    BY <2>1 DEF View!Next
<1>5. CASE New \/ Close \/ SubmitBlank \/ Submit \/ \E f \in Stored \cup {"blank"} : Type(f)
  BY <1>5 DEF New, Close, SubmitBlank, Submit, Type
<1>6. CASE \E p \in Policy : handleDelete(p)
  BY <1>6 DEF handleDelete
<1>7. CASE \E n \in 1..MaxLoads : Read(n)
  BY <1>7 DEF Read
<1>8. CASE \E r \in requests : Commit(r) \/ Lapse(r)
  BY <1>8 DEF Commit, Lapse
<1>9. CASE \E p \in Policy, to \in RowType : OtherWrites(p, to)
  BY <1>9 DEF OtherWrites
<1>10. CASE HearChange
  BY <1>10 DEF HearChange, ReceiveCreated, ReceiveDeleted, FailCreate, FailDelete
<1>11. CASE UNCHANGED vars
  BY <1>11 DEF vars
<1> QED
  BY <1>1, <1>2, <1>3, <1>4, <1>5, <1>6, <1>7, <1>8, <1>9, <1>10, <1>11 DEF Next

\* What the page shows came with a call of this visit, each call is heard
\* once, and no answer to a create or a delete passes for one to a load
\* (Policies.tsx:31-40).
THEOREM Refinement == Spec => View!Fetches
<1>1. IInv /\ [Next]_vars => [View!Next]_View!view
  BY NextFetches
<1> QED
  BY InitFetches, Invariant, <1>1, PTL DEF Spec, View!Fetches


=============================================================================
