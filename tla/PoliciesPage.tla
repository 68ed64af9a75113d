---------------------------- MODULE PoliciesPage -----------------------------
(***************************************************************************)
(* The page of policies and its form for a new one                         *)
(* (web/src/pages/Policies.tsx), against the gateway's table               *)
(* (internal/api/policies.go) which others change, too.                    *)
(*                                                                         *)
(* A browser runs one handler at a time: an event handler, or an answer    *)
(* with what follows it, is one step.  Three kinds of calls are under way  *)
(* at once and overtake each other: loads of the list, creates, deletes.   *)
(* A create or a delete is sent, committed by the gateway, and heard of;   *)
(* it may also be reported as failed while the gateway still has it, or    *)
(* after it was committed.  A page that is left hears nothing any more.    *)
(*                                                                         *)
(* The order of the rows and the fields of a policy are left out, but for  *)
(* whether it is enabled.  listed counts the rows of a policy.             *)
(***************************************************************************)
EXTENDS Naturals, FiniteSets

CONSTANTS
    Policy,     \* policies there may ever be, by id
    InitRow,    \* what is in the table when the page is first opened
    None,       \* no answer yet
    MaxLoads, MaxForms, MaxChanges, MaxOthers   \* bounds

Stored == {"active", "inactive"}
RowType == Stored \cup {"absent"}

ASSUME PolicyAssumption ==
    /\ InitRow \in [Policy -> RowType]
    /\ MaxLoads \in Nat /\ MaxForms \in Nat /\ MaxChanges \in Nat /\ MaxOthers \in Nat

VARIABLES
    \* the gateway
    row,        \* the table
    fresh,      \* the ids not given to a policy yet
    requests,   \* creates and deletes sent, not yet committed
    answers,    \* answers to those that were committed and will be heard of
    \* the page
    mounted, listed, loading, error,
    modal,      \* the form that is open, by number; 0 if showNew is false
    form,       \* what it says: blank, or the policy to be
    saving, err,
    \* the calls for the list
    made, asked, answer,
    shown,      \* history: the load whose answer came last, 0 if none did
    \* counters
    forms, changes, others,
    \* history
    formOf,     \* the form a policy was created with
    committed,  \* policies that have been in the table
    failed,     \* policies whose create was reported as failed
    removed,    \* policies whose deletion this visit has heard of
    exposed,    \* those of them an answer under way still named then
    early,      \* policies loaded before the answer to their create came
    disturbed   \* since the last quiet load, calls overlapped or others
                \* changed the table

gateway == <<row, fresh, requests, answers>>
list    == <<listed, loading, error>>
dialog  == <<modal, form, saving, err, forms>>
loads   == <<made, asked, answer, shown>>
created == <<formOf, committed, failed>>
seen    == <<removed, exposed, early>>
vars    == <<gateway, mounted, list, dialog, loads, changes, others, created, seen, disturbed>>

\* A create writes a row, a delete writes none.  heard: the page will hear
\* of it.
Request == [n : Nat, policy : Policy, row : RowType, heard : BOOLEAN]

Creates(R) == {r \in R : r.row # "absent"}
Deletes(R) == {r \in R : r.row = "absent"}

Init ==
    /\ row = InitRow
    /\ fresh = {p \in Policy : InitRow[p] = "absent"}
    /\ requests = {} /\ answers = {}
    /\ mounted = FALSE
    /\ listed = [p \in Policy |-> 0] /\ loading = FALSE /\ error = FALSE
    /\ modal = 0 /\ form = "blank" /\ saving = FALSE /\ err = FALSE
    /\ made = 0 /\ asked = {} /\ shown = 0
    /\ answer = [n \in 1..MaxLoads |-> None]
    /\ forms = 0 /\ changes = 0 /\ others = 0
    /\ formOf = [p \in Policy |-> 0]
    /\ committed = {p \in Policy : InitRow[p] # "absent"} /\ failed = {}
    /\ removed = {} /\ exposed = {} /\ early = {} /\ disturbed = FALSE

-----------------------------------------------------------------------------
(* The list. *)

load ==
    /\ made < MaxLoads
    /\ made' = made + 1
    /\ asked' = asked \cup {made'}
    /\ loading' = TRUE
    /\ error' = FALSE
    /\ disturbed' = (requests \cup answers # {} \/ (disturbed /\ asked # {}))
    /\ UNCHANGED <<gateway, listed, answer, shown, dialog, changes, others, created, seen>>

Open    == ~mounted /\ mounted' = TRUE /\ load
Refresh == mounted /\ load /\ UNCHANGED mounted

\* handleListPolicies: the enabled ones.
Read(n) ==
    /\ n \in asked /\ answer[n] = None
    /\ answer' = [answer EXCEPT ![n] = {p \in Policy : row[p] = "active"}]
    /\ UNCHANGED <<gateway, mounted, list, dialog, made, asked, shown,
                   changes, others, created, seen, disturbed>>

Over(n) ==
    /\ asked' = asked \ {n}
    /\ answer' = [answer EXCEPT ![n] = None]
    /\ loading' = FALSE
    /\ UNCHANGED <<gateway, mounted, dialog, made, changes, others, created,
                   removed, exposed, disturbed>>

\* Not the code: the answer is added to the list.
ReceiveLoadedAdding(n) ==
    /\ n \in asked /\ answer[n] # None
    /\ listed' = [p \in Policy |-> listed[p] + (IF p \in answer[n] THEN 1 ELSE 0)]
    /\ shown' = n
    /\ early' = early \cup {r.policy : r \in {a \in Creates(answers) : a.policy \in answer[n]}}
    /\ Over(n)
    /\ UNCHANGED error

ReceiveLoaded(n) ==
    /\ n \in asked /\ answer[n] # None
    /\ listed' = [p \in Policy |-> IF p \in answer[n] THEN 1 ELSE 0]
    /\ shown' = n
    /\ early' = early \cup {r.policy : r \in {a \in Creates(answers) : a.policy \in answer[n]}}
    /\ Over(n)
    /\ UNCHANGED error

\* Not the code: the error leaves the page loading.
FailLoadingOn(n) ==
    /\ n \in asked
    /\ error' = TRUE
    /\ asked' = asked \ {n}
    /\ UNCHANGED <<gateway, mounted, listed, loading, dialog, made, answer, shown,
                   changes, others, created, seen, disturbed>>

FailLoad(n) ==
    /\ n \in asked
    /\ error' = TRUE
    /\ Over(n)
    /\ UNCHANGED <<listed, shown, early>>

-----------------------------------------------------------------------------
(* The form. *)

\* The button in the page's head.
New ==
    /\ mounted /\ modal = 0
    /\ forms < MaxForms
    /\ forms' = forms + 1
    /\ modal' = forms'
    /\ form' = "blank" /\ saving' = FALSE /\ err' = FALSE
    /\ UNCHANGED <<gateway, mounted, list, loads, changes, others, created, seen, disturbed>>

\* The fields stay open while a save is under way.
Type(f) ==
    /\ modal # 0 /\ f # form
    /\ form' = f
    /\ UNCHANGED <<gateway, mounted, list, modal, saving, err, forms, loads,
                   changes, others, created, seen, disturbed>>

closed ==
    /\ modal' = 0
    /\ form' = "blank" /\ saving' = FALSE /\ err' = FALSE
    /\ UNCHANGED forms

\* The cross, Cancel, or a click beside the form, also while it is saving.
Close ==
    /\ modal # 0
    /\ closed
    /\ UNCHANGED <<gateway, mounted, list, loads, changes, others, created, seen, disturbed>>

\* The button is disabled while a save is under way.
CreateEnabled == modal # 0 /\ ~saving

SubmitBlank ==
    /\ CreateEnabled /\ form = "blank"
    /\ err' = TRUE
    /\ UNCHANGED <<gateway, mounted, list, modal, form, saving, forms, loads,
                   changes, others, created, seen, disturbed>>

Send(r) ==
    /\ changes < MaxChanges
    /\ changes' = changes + 1
    /\ requests' = requests \cup {r}
    /\ disturbed' = (disturbed \/ asked # {})

\* Not the code: the button is not disabled.
SubmitAnyTime ==
    /\ modal # 0 /\ form # "blank"
    /\ fresh # {}
    /\ LET p == CHOOSE p \in fresh : TRUE
       IN  /\ fresh' = fresh \ {p}
           /\ formOf' = [formOf EXCEPT ![p] = modal]
           /\ Send([n |-> changes + 1, policy |-> p, row |-> form, heard |-> TRUE])
    /\ saving' = TRUE /\ err' = FALSE
    /\ UNCHANGED <<row, answers, mounted, list, modal, form, forms, loads, others,
                   committed, failed, seen>>

\* submit; the id is the gateway's choice.
Submit ==
    /\ CreateEnabled /\ form # "blank"
    /\ fresh # {}
    /\ LET p == CHOOSE p \in fresh : TRUE
       IN  /\ fresh' = fresh \ {p}
           /\ formOf' = [formOf EXCEPT ![p] = modal]
           /\ Send([n |-> changes + 1, policy |-> p, row |-> form, heard |-> TRUE])
    /\ saving' = TRUE /\ err' = FALSE
    /\ UNCHANGED <<row, answers, mounted, list, modal, form, forms, loads, others,
                   committed, failed, seen>>

\* A row with its button; the rows are hidden while the page is loading.
RowShown(p) == mounted /\ ~loading /\ listed[p] > 0

\* The button and the question it asks.
handleDelete(p) ==
    /\ RowShown(p)
    /\ Send([n |-> changes + 1, policy |-> p, row |-> "absent", heard |-> TRUE])
    /\ UNCHANGED <<row, fresh, answers, mounted, list, dialog, loads, others,
                   created, seen>>

-----------------------------------------------------------------------------
(* The gateway. *)

\* handleCreatePolicy, handleDeletePolicy.  The latter finds nothing to
\* delete if the row is gone, which the page hears of as a failure.
Commit(r) ==
    /\ r \in requests
    /\ r.row = "absent" => row[r.policy] # "absent"
    /\ row' = [row EXCEPT ![r.policy] = r.row]
    /\ committed' = committed \cup {r.policy}
    /\ requests' = requests \ {r}
    /\ answers' = IF r.heard THEN answers \cup {r} ELSE answers
    /\ UNCHANGED <<fresh, mounted, list, dialog, loads, changes, others,
                   formOf, failed, seen, disturbed>>

\* A request that nobody waits for is not carried out.
Lapse(r) ==
    /\ r \in requests /\ ~r.heard
    /\ requests' = requests \ {r}
    /\ UNCHANGED <<row, fresh, answers, mounted, list, dialog, loads, changes, others,
                   created, seen, disturbed>>

\* PUT and DELETE by another console or script.
OtherWrites(p, to) ==
    /\ others < MaxOthers
    /\ row[p] # "absent" /\ to # row[p]
    /\ row' = [row EXCEPT ![p] = to]
    /\ others' = others + 1
    /\ disturbed' = TRUE
    /\ UNCHANGED <<fresh, requests, answers, mounted, list, dialog, loads, changes,
                   created, seen>>

-----------------------------------------------------------------------------
(* The page hears of a create or a delete. *)

\* Not the code: the form closes, the list is left to the next load.
ReceiveCreatedUnlisted(r) ==
    /\ r \in Creates(answers)
    /\ answers' = answers \ {r}
    /\ closed
    /\ UNCHANGED <<row, fresh, requests, mounted, list, loads, changes, others,
                   created, seen, disturbed>>

\* onCreate closes the form that is open, be it the one that was saved or a
\* later one.
ReceiveCreated(r) ==
    /\ r \in Creates(answers)
    /\ answers' = answers \ {r}
    /\ listed' = [listed EXCEPT ![r.policy] = @ + 1]
    /\ closed
    /\ UNCHANGED <<row, fresh, requests, mounted, loading, error, loads, changes, others,
                   created, seen, disturbed>>

\* Not the code: one row is taken away, not every row of that id.
Unlist(p) == [listed EXCEPT ![p] = IF @ > 0 THEN @ - 1 ELSE 0]

\* Every row of that id goes.
Filtered(p) == [listed EXCEPT ![p] = 0]

ReceiveDeleted(r) ==
    /\ r \in Deletes(answers)
    /\ answers' = answers \ {r}
    /\ listed' = Filtered(r.policy)
    /\ removed' = removed \cup {r.policy}
    /\ exposed' = IF \/ \E n \in asked : answer[n] # None /\ r.policy \in answer[n]
                     \/ \E a \in Creates(answers) : a.policy = r.policy
                  THEN exposed \cup {r.policy} ELSE exposed
    /\ UNCHANGED <<row, fresh, requests, mounted, loading, error, dialog, loads,
                   changes, others, created, early, disturbed>>

\* The call is reported as failed.  The gateway may still have it, or have
\* committed it.
Fails(r) ==
    /\ r \in requests \cup answers /\ r.heard
    /\ answers' = answers \ {r}
    /\ requests' = IF r \in requests
                   THEN (requests \ {r}) \cup {[r EXCEPT !.heard = FALSE]} ELSE requests
    /\ disturbed' = TRUE

\* Not the code: an error does not end the saving.
FailCreateSavingOn(r) ==
    /\ r.row # "absent"
    /\ Fails(r)
    /\ failed' = failed \cup {r.policy}
    /\ err' = (err \/ modal = formOf[r.policy])
    /\ UNCHANGED <<row, fresh, mounted, list, modal, form, saving, forms, loads,
                   changes, others, formOf, committed, seen>>

\* A form that has been closed says nothing.
FailCreate(r) ==
    /\ r.row # "absent"
    /\ Fails(r)
    /\ failed' = failed \cup {r.policy}
    /\ IF modal = formOf[r.policy] THEN err' = TRUE /\ saving' = FALSE
                                   ELSE UNCHANGED <<err, saving>>
    /\ UNCHANGED <<row, fresh, mounted, list, modal, form, forms, loads,
                   changes, others, formOf, committed, seen>>

FailDelete(r) ==
    /\ r.row = "absent"
    /\ Fails(r)
    /\ error' = TRUE
    /\ UNCHANGED <<row, fresh, mounted, listed, loading, dialog, loads,
                   changes, others, created, seen>>

-----------------------------------------------------------------------------

\* Not the code: a page that is left still hears what it sent.
LeaveHearing ==
    /\ mounted
    /\ mounted' = FALSE
    /\ listed' = [p \in Policy |-> 0] /\ loading' = FALSE /\ error' = FALSE
    /\ closed
    /\ asked' = {} /\ shown' = 0
    /\ answer' = [n \in 1..MaxLoads |-> None]
    /\ removed' = {} /\ exposed' = {} /\ early' = {}
    /\ UNCHANGED <<gateway, made, changes, others, created, disturbed>>

\* The page goes with its form; what it has sent stays sent.
Leave ==
    /\ mounted
    /\ mounted' = FALSE
    /\ listed' = [p \in Policy |-> 0] /\ loading' = FALSE /\ error' = FALSE
    /\ closed
    /\ requests' = {[r EXCEPT !.heard = FALSE] : r \in requests}
    /\ answers' = {}
    /\ asked' = {} /\ shown' = 0
    /\ answer' = [n \in 1..MaxLoads |-> None]
    /\ removed' = {} /\ exposed' = {} /\ early' = {}
    /\ UNCHANGED <<row, fresh, made, changes, others, created, disturbed>>

\* A call ends one way or the other: the gateway closes the connection after
\* write_timeout.
HearLoad   == \E n \in 1..MaxLoads : ReceiveLoaded(n) \/ FailLoad(n)
HearChange == \E r \in requests \cup answers :
                  ReceiveCreated(r) \/ ReceiveDeleted(r) \/ FailCreate(r) \/ FailDelete(r)

Next ==
    \/ Open \/ Refresh \/ Leave
    \/ New \/ Close \/ SubmitBlank \/ Submit
    \/ \E f \in Stored \cup {"blank"} : Type(f)
    \/ \E p \in Policy : handleDelete(p)
    \/ \E n \in 1..MaxLoads : Read(n)
    \/ \E r \in requests : Commit(r) \/ Lapse(r)
    \/ \E p \in Policy, to \in RowType : OtherWrites(p, to)
    \/ HearLoad \/ HearChange

Spec == Init /\ [][Next]_vars /\ WF_vars(HearLoad) /\ WF_vars(HearChange)

-----------------------------------------------------------------------------
(* Properties. *)

TypeOK ==
    /\ row \in [Policy -> RowType] /\ fresh \subseteq Policy
    /\ requests \subseteq Request /\ answers \subseteq Request
    /\ listed \in [Policy -> Nat]
    /\ modal \in 0..forms /\ form \in Stored \cup {"blank"}
    /\ asked \subseteq 1..made /\ made \in 0..MaxLoads
    /\ \A n \in 1..MaxLoads : answer[n] = None \/ answer[n] \subseteq Policy
    /\ formOf \in [Policy -> 0..forms]
    /\ ~mounted => asked = {} /\ answers = {} /\ modal = 0

\* A policy whose deletion the page has heard of is not listed again, unless
\* an answer that names it, to a load or to its own create, was under way at
\* that moment: nothing sent later brings it back.
DeletedStayHidden == \A p \in removed \ exposed : listed[p] = 0

\* Two rows of one policy: only where a load listed it before the answer to
\* its create came, and the next load is the cure.
TwinsOnlyIfLoadedFirst == \A p \in Policy \ early : listed[p] <= 1

\* One form makes one policy, however often Create is pressed, unless a save
\* was reported as failed and is tried again.
OneSavePerForm ==
    \A p, q \in committed \ failed :
        formOf[p] # 0 /\ formOf[p] = formOf[q] => p = q

\* With no call under way, none that failed or overlapped another since the
\* list was loaded and nobody else at work, the list is the table: appended
\* and filtered it stays what a load would show, but for the policies that
\* were created disabled, which are listed until then.
MirrorsTable ==
    mounted /\ asked = {} /\ requests \cup answers = {} /\ ~error /\ ~disturbed
        => \A p \in Policy :
               /\ row[p] = "active" => listed[p] = 1
               /\ row[p] = "absent" => listed[p] = 0
               /\ row[p] = "inactive" => listed[p] <= 1

\* The form does not stay disabled: a save ends, or the form is closed.
SaveEnds == saving ~> ~saving

\* The list keeps the promises of FetchView.
View == INSTANCE FetchView WITH last <- made, waiting <- loading
ListFetches == View!FetchesAndHears

=============================================================================
