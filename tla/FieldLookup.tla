---------------------------- MODULE FieldLookup ----------------------------
(***************************************************************************)
(* The lookups of a page (framework/images/.../fieldlookup.js): dialogs in *)
(* which a value for a field is searched and picked.  The script keeps one *)
(* global, ACTIVATED_LOOKUP, and per lookup the one that was active before *)
(* it; from these it concludes which dialog a picked value, a click and an *)
(* answer of the server are of.                                            *)
(*                                                                         *)
(* A step is an event handler, which the browser runs to its end.  Answers *)
(* come in any order.  A dialog that is not modal leaves the rest of the   *)
(* page usable: two dialogs can be open side by side.                      *)
(***************************************************************************)
EXTENDS Naturals, Sequences

CONSTANTS
  Lookups,
  OnPage,      \* those whose fields are in the page; the others are in answers
  Modal,       \* fade-background="true"
  None,
  MaxRequests  \* bound: requests to the server

ASSUME LookupsAssumption == OnPage \subseteq Lookups /\ None \notin Lookups
ASSUME BoundAssumption == MaxRequests \in Nat

VARIABLES
  active,    \* ACTIVATED_LOOKUP
  prev,      \* prevLookup of each
  dialogs,   \* the open dialogs, in the order in which they were opened
  field,     \* per lookup: the dialog in which the value of its field was picked
  home,      \* per lookup: what its field and its button are in
  content,   \* per lookup: the answer in its dialog
  requests,  \* not answered
  lookupId,  \* the global that lookupAjaxRequest leaves behind
  sent,      \* the requests so far
  mixed,     \* history: a dialog was used that is not the last one opened
  crossed    \* history: requests by link that overlapped or failed

vars == <<active, prev, dialogs, field, home, content, requests, lookupId, sent, mixed, crossed>>

-----------------------------------------------------------------------------

Page == "page"
Gone == "gone"  \* the answer that it was in has been replaced

Kinds == {"open", "link", "form"}
Request == [id : Nat, kind : Kinds, into : Lookups, by : Lookups]
Empty == [by |-> None, rewrites |-> 0]

Last(s) == s[Len(s)]
HasContent(d) == content[d].by # None
IsOpen(d) == \E i \in DOMAIN dialogs : dialogs[i] = d

\* _createOverlay: the overlay of a modal dialog covers what was there before it.
Usable(d) == \E i \in DOMAIN dialogs :
               /\ dialogs[i] = d
               /\ \A j \in DOMAIN dialogs : dialogs[j] \in Modal => j <= i
PageIsUsable == \A i \in DOMAIN dialogs : dialogs[i] \notin Modal
ButtonIsUsable(l) == \/ home[l] = Page /\ PageIsUsable
                     \/ home[l] \in Lookups /\ Usable(home[l])

Mixes(d) == mixed' = (mixed \/ d # Last(dialogs))

Loaded == /\ active = None
          /\ prev = [l \in Lookups |-> None]
          /\ dialogs = <<>>
          /\ field = [l \in Lookups |-> None]
          /\ home = [l \in Lookups |-> IF l \in OnPage THEN Page ELSE None]
          /\ content = [l \in Lookups |-> Empty]
          /\ requests = {}
          /\ lookupId = None
          /\ mixed = FALSE
          /\ crossed = {}

Init == Loaded /\ sent = 0

-----------------------------------------------------------------------------
(* Requests and answers *)

Send(kind, into, by) ==
  /\ sent < MaxRequests
  /\ sent' = sent + 1
  /\ requests' = requests \cup {[id |-> sent, kind |-> kind, into |-> into, by |-> by]}

\* Each time counts.
Rewritten_Again(c) == [c EXCEPT !.rewrites = @ + 1]

\* The links and the submit button of content c are made to stay in the dialog.
\* Doing it twice breaks the links.
Rewritten(c) == IF c.by = None \/ c.rewrites = 2 THEN c ELSE [c EXCEPT !.rewrites = @ + 1]

\* html(data): the lookups in the old content are gone with it, and those in the
\* new one register themselves.
Replaced(l, new) == [k \in Lookups |-> IF home[k] = l THEN Gone
                                       ELSE IF k \in new THEN l ELSE home[k]]

\* The dialog is looked up when the answer comes.
Answer_Active(r) ==
  /\ r \in requests
  /\ requests' = requests \ {r}
  /\ LET into == IF active = None THEN r.into ELSE active IN
       /\ content' = [content EXCEPT ![into] = [by |-> r.by, rewrites |-> 1]]
       /\ home' = Replaced(into, {})
  /\ UNCHANGED <<active, prev, dialogs, field, lookupId, sent, mixed, crossed>>

\* success, or the callback of load: the answer to an opening, a link, a form or
\* a page of results.  A link's callback takes the dialog from the global.
Answer(r) ==
  /\ r \in requests
  /\ requests' = requests \ {r}
  /\ content' = LET raw == [content EXCEPT ![r.into] = [by |-> r.by, rewrites |-> 0]]
                    whose == IF r.kind = "link" THEN lookupId ELSE r.into
                IN [raw EXCEPT ![whose] = Rewritten(@)]
  /\ \E new \in SUBSET {k \in Lookups : home[k] = None} : home' = Replaced(r.into, new)
  /\ UNCHANGED <<active, prev, dialogs, field, lookupId, sent, mixed, crossed>>

\* load calls back after an error, too; a form's request just ends.
RequestFails(r) ==
  /\ r \in requests /\ r.kind # "open"
  /\ requests' = requests \ {r}
  /\ IF r.kind = "link"
     THEN /\ content' = [content EXCEPT ![lookupId] = Rewritten(@)]
          /\ crossed' = crossed \cup {lookupId}
     ELSE UNCHANGED <<content, crossed>>
  /\ UNCHANGED <<active, prev, dialogs, field, home, lookupId, sent, mixed>>

\* The page is loaded again, by the user, or because a dialog could not be
\* opened or the session has ended.
Reload == /\ active' = None
          /\ prev' = [l \in Lookups |-> None]
          /\ dialogs' = <<>>
          /\ field' = [l \in Lookups |-> None]
          /\ home' = [l \in Lookups |-> IF l \in OnPage THEN Page ELSE None]
          /\ content' = [l \in Lookups |-> Empty]
          /\ requests' = {}
          /\ lookupId' = None
          /\ mixed' = FALSE
          /\ crossed' = {}
          /\ UNCHANGED sent

OpenFails(r) == r \in requests /\ r.kind = "open" /\ Reload

-----------------------------------------------------------------------------
(* What the user does *)

\* The lookup activates itself before it looks for the one before it.
Open_ActivatesFirst(l) ==
  /\ ButtonIsUsable(l) /\ ~IsOpen(l)
  /\ dialogs' = Append(dialogs, l)
  /\ content' = [content EXCEPT ![l] = Empty]
  /\ home' = Replaced(l, {})
  /\ prev' = [prev EXCEPT ![l] = l]
  /\ active' = l
  /\ Send("open", l, l)
  /\ UNCHANGED <<field, lookupId, mixed, crossed>>

\* What has been loaded once is not asked for again.
Open_Once(l) ==
  /\ ButtonIsUsable(l) /\ ~IsOpen(l)
  /\ dialogs' = Append(dialogs, l)
  /\ content' = [content EXCEPT ![l] = Empty]
  /\ home' = Replaced(l, {})
  /\ prev' = [prev EXCEPT ![l] = active]
  /\ active' = l
  /\ IF HasContent(l) THEN UNCHANGED <<requests, sent>> ELSE Send("open", l, l)
  /\ UNCHANGED <<field, lookupId, mixed, crossed>>

\* The button of a lookup.  A dialog that is open already only comes to the
\* front.
Open(l) ==
  /\ ButtonIsUsable(l) /\ ~IsOpen(l)
  /\ dialogs' = Append(dialogs, l)
  /\ content' = [content EXCEPT ![l] = Empty]
  /\ home' = Replaced(l, {})
  /\ prev' = [prev EXCEPT ![l] = active]
  /\ active' = l
  /\ Send("open", l, l)
  /\ UNCHANGED <<field, lookupId, mixed, crossed>>

Without(s, d) == LET k == CHOOSE i \in DOMAIN s : s[i] = d
                 IN [i \in 1 .. Len(s) - 1 |-> IF i < k THEN s[i] ELSE s[i + 1]]

\* _dialogClose: the lookup before the active one becomes active.
Deactivate == active' = IF active = None THEN None ELSE prev[active]

\* By its cross, the escape key, or a click on the overlay, which closes the
\* active lookup if the overlay is not one of a dialog opened later.
Close(d) ==
  /\ Usable(d)
  /\ dialogs' = Without(dialogs, d)
  /\ Deactivate
  /\ Mixes(d)
  /\ UNCHANGED <<prev, field, home, content, requests, lookupId, sent, crossed>>

\* The dialog of the active lookup, if it is open.
CloseLookup == IF IsOpen(active) THEN dialogs' = Without(dialogs, active) /\ Deactivate
               ELSE UNCHANGED <<dialogs, active>>

\* The dialog is closed first.
Pick_ClosesFirst(d) ==
  /\ Usable(d) /\ HasContent(d) /\ IsOpen(active)
  /\ Mixes(d)
  /\ dialogs' = Without(dialogs, active)
  /\ Deactivate
  /\ field' = [l \in Lookups |-> IF l = prev[active] THEN d ELSE field[l]]
  /\ UNCHANGED <<prev, home, content, requests, lookupId, sent, crossed>>

\* set_value, set_values: the value is written to the field of the active
\* lookup, and its dialog is closed.  Without an active lookup closeLookup
\* throws.
Pick(d) ==
  /\ Usable(d) /\ HasContent(d)
  /\ Mixes(d)
  /\ field' = IF active = None THEN field ELSE [field EXCEPT ![active] = d]
  /\ CloseLookup
  /\ UNCHANGED <<prev, home, content, requests, lookupId, sent, crossed>>

\* lookupAjaxRequest: the answer goes into the dialog of the active lookup.
\* Links that were not rewritten leave the page, and those that were twice do
\* nothing.
Follow(d) ==
  /\ Usable(d) /\ HasContent(d) /\ content[d].rewrites = 1
  /\ active # None
  /\ Send("link", active, d)
  /\ lookupId' = active
  /\ LET others == {r.into : r \in {q \in requests : q.kind = "link"}} IN
       crossed' = IF others \subseteq {active} THEN crossed ELSE crossed \cup others \cup {active}
  /\ Mixes(d)
  /\ UNCHANGED <<active, prev, dialogs, field, home, content>>

\* The variable has lost its "var".
Submit_Global(d) ==
  /\ Usable(d) /\ HasContent(d) /\ content[d].rewrites > 0
  /\ active # None
  /\ Send("form", active, d)
  /\ lookupId' = active
  /\ Mixes(d)
  /\ UNCHANGED <<active, prev, dialogs, field, home, content, crossed>>

\* lookupFormAjaxRequest, lookupPaginationAjaxRequest.
Submit(d) ==
  /\ Usable(d) /\ HasContent(d) /\ content[d].rewrites > 0
  /\ active # None
  /\ Send("form", active, d)
  /\ Mixes(d)
  /\ UNCHANGED <<active, prev, dialogs, field, home, content, lookupId, crossed>>

-----------------------------------------------------------------------------
(* The specification *)

Next ==
  \/ \E l \in Lookups : Open(l) \/ Close(l) \/ Pick(l) \/ Follow(l) \/ Submit(l)
  \/ \E r \in requests : Answer(r) \/ RequestFails(r) \/ OpenFails(r)
  \/ Reload

Spec == Init /\ [][Next]_vars

\* A request that opens a dialog is answered, or fails after its timeout.
Opening(l) == {r \in requests : r.kind = "open" /\ r.into = l}
AnswerOpen(l) == \E r \in Opening(l) : Answer(r) \/ OpenFails(r)
FairSpec == Spec /\ \A l \in Lookups : WF_vars(AnswerOpen(l))

-----------------------------------------------------------------------------
(* Properties *)

\* The types of all variables.
TypeOK ==
  /\ active \in Lookups \cup {None}
  /\ prev \in [Lookups -> Lookups \cup {None}]
  /\ dialogs \in Seq(Lookups)
  /\ field \in [Lookups -> Lookups \cup {None}]
  /\ home \in [Lookups -> Lookups \cup {Page, Gone, None}]
  /\ content \in [Lookups -> [by : Lookups \cup {None}, rewrites : 0..2]]
  /\ \A r \in requests : r \in Request /\ r.id < sent /\ (r.kind = "link" => lookupId # None)
  /\ lookupId \in Lookups \cup {None}
  /\ sent \in Nat /\ mixed \in BOOLEAN /\ crossed \subseteq Lookups

\* While the dialogs are used in the order in which they lie on each other, the
\* active lookup is the one on top, and the chain of prevLookup is the stack of
\* dialogs (_lookupChaining, _dialogClose).
ChainIsStack ==
  ~mixed =>
    /\ active = IF dialogs = <<>> THEN None ELSE Last(dialogs)
    /\ \A i \in DOMAIN dialogs :
         prev[dialogs[i]] = IF i = 1 THEN None ELSE dialogs[i - 1]

\* Then a value gets into the field whose dialog it was picked in, and closes
\* this dialog (set_value, closeLookup).
ValuesGoHome ==
  [][\A d \in Lookups : Pick(d) /\ ~mixed' => field'[d] = d /\ dialogs' = Without(dialogs, d)]_vars

\* And a dialog shows only answers that were asked for in it, however late they
\* come (lookupAjaxRequest, lookupFormAjaxRequest).
AnswersStayHome == ~mixed => \A l \in Lookups : content[l].by \in {l, None}

\* The links of an answer are rewritten once, unless a link was followed in one
\* dialog while another one waited for the answer to its link, or this failed
\* (ButtonModifier, and the global lookupId).
RewrittenOnce ==
  \A l \in Lookups : content[l].by # None /\ content[l].rewrites # 1 => l \in crossed

\* An open dialog is filled, or closed, or the page is loaded again
\* (_dialogOpen and its timeout).
DialogsAreFilled ==
  \A l \in Lookups : IsOpen(l) /\ ~HasContent(l) ~> ~IsOpen(l) \/ HasContent(l)

=============================================================================
