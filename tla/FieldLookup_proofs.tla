------------------------- MODULE FieldLookup_proofs -------------------------
(***************************************************************************)
(* What holds of the lookups of a page for any lookups, whichever are modal*)
(* and however many requests are made.                                     *)
(***************************************************************************)
EXTENDS FieldLookup, TLAPS

\* A dialog is on the stack once.
NoRepeats == \A i, j \in DOMAIN dialogs : dialogs[i] = dialogs[j] => i = j

\* Every request goes out from the dialog that it is to fill.
RequestsStayHome == ~mixed => \A r \in requests : r.by = r.into

\* A link whose answer will meet another dialog's name in the global is known,
\* and so is that dialog.
OverlapsAreKnown ==
  \A r \in requests : r.kind = "link" /\ r.into # lookupId => {r.into, lookupId} \subseteq crossed

IInv == /\ TypeOK /\ NoRepeats
        /\ ChainIsStack /\ RequestsStayHome /\ AnswersStayHome
        /\ OverlapsAreKnown /\ RewrittenOnce

\* An open dialog is one of the lookups, and taking it off leaves a stack that
\* is shorter by one.
LEMMA WithoutType ==
  ASSUME NEW S, NEW s \in Seq(S), NEW k \in DOMAIN s
  PROVE  /\ Without(s, s[k]) \in Seq(S)
         /\ Len(Without(s, s[k])) = Len(s) - 1
         /\ DOMAIN Without(s, s[k]) = 1 .. Len(s) - 1
<1> DEFINE c == CHOOSE i \in DOMAIN s : s[i] = s[k]
           w == [i \in 1 .. Len(s) - 1 |-> IF i < c THEN s[i] ELSE s[i + 1]]
<1>1. Len(s) \in Nat /\ DOMAIN s = 1 .. Len(s) /\ Len(s) - 1 \in Nat
  OBVIOUS
<1>2. c \in DOMAIN s
  OBVIOUS
<1>3. \A i \in 1 .. Len(s) - 1 : i \in DOMAIN s /\ i + 1 \in DOMAIN s
  BY <1>1
<1>4. \A i \in 1 .. Len(s) - 1 : w[i] \in S
  BY <1>1, <1>3
<1>5. w \in [1 .. Len(s) - 1 -> S]
  BY <1>4
<1>6. w \in Seq(S) /\ Len(w) = Len(s) - 1 /\ DOMAIN w = 1 .. Len(s) - 1
  BY <1>1, <1>5
<1> QED BY <1>6 DEF Without

\* Taking off a dialog keeps the others, once each.
LEMMA WithoutKeeps ==
  ASSUME NEW S, NEW s \in Seq(S), NEW k \in DOMAIN s,
         \A i, j \in DOMAIN s : s[i] = s[j] => i = j
  PROVE  \A i \in 1 .. Len(s) - 1 :
           Without(s, s[k])[i] = IF i < k THEN s[i] ELSE s[i + 1]
<1>1. (CHOOSE i \in DOMAIN s : s[i] = s[k]) = k
  OBVIOUS
<1> QED BY <1>1 DEF Without

\* The stack keeps each dialog once.
LEMMA WithoutNoRepeats ==
  ASSUME NEW S, NEW s \in Seq(S), NEW k \in DOMAIN s,
         \A i, j \in DOMAIN s : s[i] = s[j] => i = j
  PROVE  LET w == Without(s, s[k]) IN \A i, j \in DOMAIN w : w[i] = w[j] => i = j
<1> DEFINE w == Without(s, s[k])
<1>1. DOMAIN w = 1 .. Len(s) - 1
  BY WithoutType
<1>2. \A i \in 1 .. Len(s) - 1 : w[i] = IF i < k THEN s[i] ELSE s[i + 1]
  BY WithoutKeeps
<1>3. DOMAIN s = 1 .. Len(s) /\ Len(s) \in Nat
  OBVIOUS
<1> SUFFICES ASSUME NEW i \in DOMAIN w, NEW j \in DOMAIN w, w[i] = w[j] PROVE i = j
  OBVIOUS
<1>4. w[i] = (IF i < k THEN s[i] ELSE s[i + 1]) /\ w[j] = IF j < k THEN s[j] ELSE s[j + 1]
  BY <1>1, <1>2
<1>5. i \in 1 .. Len(s) - 1 /\ j \in 1 .. Len(s) - 1
  BY <1>1
<1>6. {i, i + 1, j, j + 1} \subseteq DOMAIN s
  BY <1>3, <1>5
<1>7. (IF i < k THEN i ELSE i + 1) = IF j < k THEN j ELSE j + 1
  BY <1>4, <1>6
<1> QED BY <1>3, <1>5, <1>7

-----------------------------------------------------------------------------
(* Types *)

\* Emptying, replacing and rewriting an answer keeps its type.
LEMMA ContentTypes ==
  ASSUME TypeOK, NEW l \in Lookups, NEW b \in Lookups, NEW c \in Lookups
  PROVE  LET C == [Lookups -> [by : Lookups \cup {None}, rewrites : 0..2]]
             raw == [content EXCEPT ![l] = [by |-> b, rewrites |-> 0]]
         IN /\ [content EXCEPT ![l] = Empty] \in C
            /\ [content EXCEPT ![c] = Rewritten(@)] \in C
            /\ [raw EXCEPT ![c] = Rewritten(@)] \in C
<1> DEFINE A == [by : Lookups \cup {None}, rewrites : 0..2]
           raw == [content EXCEPT ![l] = [by |-> b, rewrites |-> 0]]
<1>1. content \in [Lookups -> A]
  BY DEF TypeOK
<1>2. ASSUME NEW a \in A PROVE Rewritten(a) \in A
  BY DEF Rewritten
<1>3. Empty \in A /\ [by |-> b, rewrites |-> 0] \in A
  BY DEF Empty
<1>4. raw \in [Lookups -> A]
  BY <1>1, <1>3
<1>5. [content EXCEPT ![c] = Rewritten(@)] \in [Lookups -> A]
  BY <1>1, <1>2
<1>6. [raw EXCEPT ![c] = Rewritten(@)] \in [Lookups -> A]
  <2> HIDE DEF raw
  <2> QED BY <1>2, <1>4
<1> QED BY <1>1, <1>3, <1>5, <1>6

\* A request that is sent is a request of the next number.
LEMMA SendType ==
  ASSUME TypeOK, NEW kind \in Kinds, NEW l \in Lookups, NEW d \in Lookups, Send(kind, l, d)
  PROVE  /\ sent' \in Nat /\ sent' = sent + 1
         /\ \A r \in requests' : r \in Request /\ r.id < sent'
         /\ \A r \in requests' : r \in requests \/ r = [id |-> sent, kind |-> kind, into |-> l, by |-> d]
<1> DEFINE new == [id |-> sent, kind |-> kind, into |-> l, by |-> d]
<1>1. sent \in Nat /\ sent' = sent + 1 /\ requests' = requests \cup {new}
  BY DEF Send, TypeOK
<1>2. new \in Request /\ new.id = sent
  BY <1>1 DEF Request
<1>3. \A r \in requests : r \in Request /\ r.id \in Nat /\ r.id < sent
  BY DEF TypeOK, Request
<1> QED BY <1>1, <1>2, <1>3

\* A dialog that can be used is open, and so has a place on the stack.
LEMMA UsableIsOpen ==
  ASSUME NEW d, Usable(d)
  PROVE  \E k \in DOMAIN dialogs : dialogs[k] = d
BY DEF Usable

\* What is left of the stack without an open dialog is a stack.
LEMMA StackType ==
  ASSUME TypeOK, NEW d, IsOpen(d)
  PROVE  Without(dialogs, d) \in Seq(Lookups)
BY WithoutType DEF TypeOK, IsOpen

\* The variables of a page that has been loaded have their types.
LEMMA LoadedType ==
  ASSUME sent \in Nat, Loaded
  PROVE  TypeOK
<1>1. Page \in {Page, Gone, None} /\ None \in {Page, Gone, None}
  OBVIOUS
<1>2. content \in [Lookups -> [by : Lookups \cup {None}, rewrites : 0..2]]
  BY DEF Loaded, Empty
<1>3. dialogs \in Seq(Lookups) /\ requests = {}
  BY DEF Loaded
<1> QED BY <1>1, <1>2, <1>3 DEF Loaded, TypeOK

LEMMA TypeStep == TypeOK /\ [Next]_vars => TypeOK'
<1> SUFFICES ASSUME TypeOK, [Next]_vars PROVE TypeOK'
  OBVIOUS
<1> USE LookupsAssumption
<1>1. ASSUME NEW l \in Lookups, Open(l) PROVE TypeOK'
  <2>1. dialogs' \in Seq(Lookups)
    BY <1>1 DEF Open, TypeOK
  <2>2. content' \in [Lookups -> [by : Lookups \cup {None}, rewrites : 0..2]]
    BY <1>1, ContentTypes DEF Open
  <2>3. prev' \in [Lookups -> Lookups \cup {None}] /\ active' \in Lookups \cup {None}
    BY <1>1 DEF Open, TypeOK
  <2>4. home' \in [Lookups -> Lookups \cup {Page, Gone, None}]
    BY <1>1 DEF Open, TypeOK, Replaced
  <2>5. "open" \in Kinds /\ Send("open", l, l)
    BY <1>1 DEF Open, Kinds
  <2>6. \A r \in requests' : r \in requests \/ r.kind # "link"
    BY <2>5, SendType
  <2>7. \A r \in requests' : r \in Request /\ r.id < sent' /\ (r.kind = "link" => lookupId' # None)
    BY <1>1, <2>5, <2>6, SendType DEF Open, TypeOK
  <2>8. sent' \in Nat
    BY <2>5, SendType
  <2> QED BY <1>1, <2>1, <2>2, <2>3, <2>4, <2>7, <2>8 DEF Open, TypeOK
<1>2. ASSUME NEW d \in Lookups, Close(d) PROVE TypeOK'
  <2>1. IsOpen(d)
    BY <1>2, UsableIsOpen DEF Close, IsOpen
  <2>2. dialogs' \in Seq(Lookups)
    BY <1>2, <2>1, StackType DEF Close
  <2>3. active' \in Lookups \cup {None}
    BY <1>2 DEF Close, Deactivate, TypeOK
  <2>4. mixed' \in BOOLEAN
    BY <1>2 DEF Close, Mixes, TypeOK
  <2> QED BY <1>2, <2>2, <2>3, <2>4 DEF Close, TypeOK
<1>3. ASSUME NEW d \in Lookups, Pick(d) PROVE TypeOK'
  <2>1. dialogs' \in Seq(Lookups)
    BY <1>3, StackType DEF Pick, CloseLookup, TypeOK
  <2>2. active' \in Lookups \cup {None}
    BY <1>3 DEF Pick, CloseLookup, Deactivate, TypeOK
  <2>3. field' \in [Lookups -> Lookups \cup {None}]
    BY <1>3 DEF Pick, TypeOK
  <2>4. mixed' \in BOOLEAN
    BY <1>3 DEF Pick, Mixes, TypeOK
  <2> QED BY <1>3, <2>1, <2>2, <2>3, <2>4 DEF Pick, TypeOK
<1>4. ASSUME NEW d \in Lookups, Follow(d) PROVE TypeOK'
  <2>1. active \in Lookups
    BY <1>4 DEF Follow, TypeOK
  <2>2. "link" \in Kinds /\ Send("link", active, d)
    BY <1>4 DEF Follow, Kinds
  <2>3. lookupId' \in Lookups /\ lookupId' # None
    BY <1>4, <2>1 DEF Follow
  <2>4. \A r \in requests' : r \in Request /\ r.id < sent' /\ (r.kind = "link" => lookupId' # None)
    BY <2>1, <2>2, <2>3, SendType
  <2>5. sent' \in Nat
    BY <2>1, <2>2, SendType
  <2>6. \A r \in requests : r.into \in Lookups
    BY DEF TypeOK, Request
  <2>7. crossed' \subseteq Lookups
    BY <1>4, <2>1, <2>6 DEF Follow, TypeOK
  <2>8. mixed' \in BOOLEAN
    BY <1>4 DEF Follow, Mixes, TypeOK
  <2> QED BY <1>4, <2>3, <2>4, <2>5, <2>7, <2>8 DEF Follow, TypeOK
<1>5. ASSUME NEW d \in Lookups, Submit(d) PROVE TypeOK'
  <2>1. active \in Lookups
    BY <1>5 DEF Submit, TypeOK
  <2>2. "form" \in Kinds /\ Send("form", active, d)
    BY <1>5 DEF Submit, Kinds
  <2>3. \A r \in requests' : r \in requests \/ r.kind # "link"
    BY <2>1, <2>2, SendType
  <2>4. \A r \in requests' : r \in Request /\ r.id < sent' /\ (r.kind = "link" => lookupId' # None)
    BY <1>5, <2>1, <2>2, <2>3, SendType DEF Submit, TypeOK
  <2>5. sent' \in Nat
    BY <2>1, <2>2, SendType
  <2>6. mixed' \in BOOLEAN
    BY <1>5 DEF Submit, Mixes, TypeOK
  <2> QED BY <1>5, <2>4, <2>5, <2>6 DEF Submit, TypeOK
<1>6. ASSUME NEW r \in requests, Answer(r) PROVE TypeOK'
  <2>1. r \in Request /\ r.into \in Lookups /\ r.by \in Lookups
    BY DEF TypeOK, Request
  <2> DEFINE whose == IF r.kind = "link" THEN lookupId ELSE r.into
  <2>2. whose \in Lookups
    BY <2>1 DEF TypeOK
  <2>3. content' \in [Lookups -> [by : Lookups \cup {None}, rewrites : 0..2]]
    <3>1. content' = [[content EXCEPT ![r.into] = [by |-> r.by, rewrites |-> 0]]
                        EXCEPT ![whose] = Rewritten(@)]
      BY <1>6 DEF Answer
    <3> HIDE DEF whose
    <3> QED BY <2>1, <2>2, <3>1, ContentTypes
  <2>4. home' \in [Lookups -> Lookups \cup {Page, Gone, None}]
    BY <1>6, <2>1 DEF Answer, Replaced, TypeOK
  <2>5. requests' \subseteq requests
    BY <1>6 DEF Answer
  <2> QED BY <1>6, <2>3, <2>4, <2>5 DEF Answer, TypeOK
<1>7. ASSUME NEW r \in requests, RequestFails(r) PROVE TypeOK'
  <2>1. r.kind = "link" => lookupId \in Lookups
    BY DEF TypeOK
  <2>2. /\ content' \in [Lookups -> [by : Lookups \cup {None}, rewrites : 0..2]]
        /\ crossed' \subseteq Lookups
    <3>1. CASE r.kind = "link"
      <4>1. content' = [content EXCEPT ![lookupId] = Rewritten(@)] /\ crossed' = crossed \cup {lookupId}
        BY <1>7, <3>1 DEF RequestFails
      <4>2. lookupId \in Lookups
        BY <2>1, <3>1
      <4>3. [content EXCEPT ![lookupId] = Rewritten(@)] \in
              [Lookups -> [by : Lookups \cup {None}, rewrites : 0..2]]
        BY <4>2, ContentTypes
      <4> QED BY <4>1, <4>2, <4>3 DEF TypeOK
    <3>2. CASE r.kind # "link"
      BY <1>7, <3>2 DEF RequestFails, TypeOK
    <3> QED BY <3>1, <3>2
  <2>3. requests' \subseteq requests
    BY <1>7 DEF RequestFails
  <2> QED BY <1>7, <2>2, <2>3 DEF RequestFails, TypeOK
<1>8. ASSUME Reload PROVE TypeOK'
  <2>1. content' \in [Lookups -> [by : Lookups \cup {None}, rewrites : 0..2]]
    BY <1>8 DEF Reload, Empty
  <2>2. dialogs' \in Seq(Lookups) /\ requests' = {} /\ sent' \in Nat
    BY <1>8 DEF Reload, TypeOK
  <2> QED BY <1>8, <2>1, <2>2 DEF Reload, TypeOK
<1>9. CASE UNCHANGED vars
  BY <1>9 DEF vars, TypeOK, Request
<1> QED BY <1>1, <1>2, <1>3, <1>4, <1>5, <1>6, <1>7, <1>8, <1>9 DEF Next, OpenFails

\* Everything holds in the page as it is loaded.
LEMMA InitHolds == Init => IInv
<1> SUFFICES ASSUME Init PROVE IInv
  OBVIOUS
<1>1. TypeOK
  BY LoadedType DEF Init
<1>2. dialogs = <<>> /\ active = None /\ requests = {} /\ \A l \in Lookups : content[l] = Empty
  BY DEF Init, Loaded
<1> QED BY <1>1, <1>2 DEF IInv, NoRepeats, ChainIsStack, RequestsStayHome, AnswersStayHome,
                          OverlapsAreKnown, RewrittenOnce, Empty

\* The types of all variables hold in every state.
THEOREM TypeCorrect == Spec => []TypeOK
<1>1. Init => TypeOK
  BY InitHolds DEF IInv
<1> QED BY <1>1, TypeStep, PTL DEF Spec

-----------------------------------------------------------------------------
(* The stack of dialogs *)

LEMMA NoRepeatsStep == TypeOK /\ NoRepeats /\ [Next]_vars => NoRepeats'
<1> SUFFICES ASSUME TypeOK, NoRepeats, [Next]_vars PROVE NoRepeats'
  OBVIOUS
<1>1. dialogs \in Seq(Lookups)
  BY DEF TypeOK
<1>2. ASSUME NEW l \in Lookups, Open(l) PROVE NoRepeats'
  <2>1. dialogs' = Append(dialogs, l) /\ \A i \in DOMAIN dialogs : dialogs[i] # l
    BY <1>2 DEF Open, IsOpen
  <2> QED BY <1>1, <2>1 DEF NoRepeats
<1>3. ASSUME NEW d, IsOpen(d), dialogs' = Without(dialogs, d) PROVE NoRepeats'
  <2>1. PICK k \in DOMAIN dialogs : dialogs[k] = d
    BY <1>3 DEF IsOpen
  <2> QED BY <1>1, <1>3, <2>1, WithoutNoRepeats DEF NoRepeats
<1>4. ASSUME NEW d \in Lookups, Close(d) PROVE NoRepeats'
  <2>1. IsOpen(d)
    BY <1>4, UsableIsOpen DEF Close, IsOpen
  <2> QED BY <1>3, <1>4, <2>1 DEF Close
<1>5. ASSUME NEW d \in Lookups, Pick(d) PROVE NoRepeats'
  BY <1>3, <1>5 DEF Pick, CloseLookup, NoRepeats
<1>6. CASE Reload
  BY <1>6 DEF Reload, NoRepeats
<1>7. ASSUME dialogs' = dialogs PROVE NoRepeats'
  BY <1>7 DEF NoRepeats
<1>8. CASE UNCHANGED vars
  BY <1>7, <1>8 DEF vars
<1> QED BY <1>2, <1>4, <1>5, <1>6, <1>7, <1>8 DEF Next, OpenFails, Answer, RequestFails, Follow, Submit

\* The dialog on top is taken off a stack that is used in order: the one below
\* becomes active, and the chain below it stays.
LEMMA TopOff ==
  ASSUME TypeOK, NoRepeats, ChainIsStack, ~mixed, dialogs # <<>>,
         prev' = prev, dialogs' = Without(dialogs, Last(dialogs)), Deactivate
  PROVE  ChainIsStack'
<1>1. dialogs \in Seq(Lookups) /\ Len(dialogs) \in Nat /\ Len(dialogs) >= 1
      /\ DOMAIN dialogs = 1 .. Len(dialogs)
  BY DEF TypeOK
<1> DEFINE n == Len(dialogs)
<1>2. n \in DOMAIN dialogs /\ Last(dialogs) = dialogs[n]
  BY <1>1 DEF Last
<1>3. Len(dialogs') = n - 1 /\ DOMAIN dialogs' = 1 .. n - 1 /\ dialogs' \in Seq(Lookups)
  BY <1>1, <1>2, WithoutType
<1>4. \A i \in 1 .. n - 1 : dialogs'[i] = dialogs[i]
  <2>1. \A i \in 1 .. n - 1 : Without(dialogs, dialogs[n])[i] = IF i < n THEN dialogs[i] ELSE dialogs[i + 1]
    BY <1>1, <1>2, WithoutKeeps DEF NoRepeats
  <2> QED BY <1>1, <1>2, <2>1
<1>5. active = dialogs[n] /\ active # None
  BY <1>1, <1>2, LookupsAssumption DEF ChainIsStack, TypeOK
<1>6. active' = IF n = 1 THEN None ELSE dialogs[n - 1]
  BY <1>2, <1>5 DEF ChainIsStack, Deactivate
<1>7. active' = IF dialogs' = <<>> THEN None ELSE Last(dialogs')
  <2>1. CASE n = 1
    BY <1>3, <1>6, <2>1
  <2>2. CASE n # 1
    <3>1. dialogs' # <<>> /\ Len(dialogs') \in 1 .. n - 1
      BY <1>1, <1>3, <2>2
    <3> QED BY <1>1, <1>3, <1>4, <1>6, <2>2, <3>1 DEF Last
  <2> QED BY <2>1, <2>2
<1>8. ASSUME NEW i \in DOMAIN dialogs'
      PROVE  prev'[dialogs'[i]] = IF i = 1 THEN None ELSE dialogs'[i - 1]
  <2>1. i \in 1 .. n - 1 /\ i \in DOMAIN dialogs /\ dialogs'[i] = dialogs[i]
    BY <1>1, <1>3, <1>4
  <2>2. i # 1 => dialogs'[i - 1] = dialogs[i - 1]
    BY <1>1, <1>4, <2>1
  <2>3. prev[dialogs[i]] = IF i = 1 THEN None ELSE dialogs[i - 1]
    BY <2>1 DEF ChainIsStack
  <2> QED BY <2>1, <2>2, <2>3
<1> QED BY <1>7, <1>8 DEF ChainIsStack

\* In a stack that is used in order, it is the active dialog that is used.
LEMMA UsedIsActive ==
  ASSUME TypeOK, ChainIsStack, NEW d \in Lookups, Usable(d), Mixes(d), ~mixed'
  PROVE  ~mixed /\ dialogs # <<>> /\ d = Last(dialogs) /\ active = d /\ IsOpen(active)
<1>1. ~mixed /\ d = Last(dialogs)
  BY DEF Mixes
<1>2. IsOpen(d) /\ dialogs # <<>>
  BY UsableIsOpen DEF IsOpen
<1> QED BY <1>1, <1>2 DEF ChainIsStack

LEMMA ChainStep == TypeOK /\ NoRepeats /\ ChainIsStack /\ [Next]_vars => ChainIsStack'
<1> SUFFICES ASSUME TypeOK, NoRepeats, ChainIsStack, [Next]_vars, ~mixed' PROVE ChainIsStack'
  BY DEF ChainIsStack
<1>1. ASSUME NEW l \in Lookups, Open(l) PROVE ChainIsStack'
  <2>1. /\ ~mixed /\ dialogs' = Append(dialogs, l) /\ active' = l
        /\ prev' = [prev EXCEPT ![l] = active] /\ \A i \in DOMAIN dialogs : dialogs[i] # l
    BY <1>1 DEF Open, IsOpen
  <2>2. dialogs \in Seq(Lookups) /\ prev \in [Lookups -> Lookups \cup {None}]
    BY DEF TypeOK
  <2>3. active' = Last(dialogs') /\ dialogs' # <<>>
    BY <2>1, <2>2 DEF Last
  <2>4. ASSUME NEW i \in DOMAIN dialogs'
        PROVE  prev'[dialogs'[i]] = IF i = 1 THEN None ELSE dialogs'[i - 1]
    <3>1. CASE i \in DOMAIN dialogs
      <4>1. dialogs'[i] = dialogs[i] /\ prev'[dialogs[i]] = prev[dialogs[i]]
        BY <2>1, <2>2, <3>1
      <4>2. i # 1 => dialogs'[i - 1] = dialogs[i - 1]
        BY <2>1, <2>2, <3>1
      <4> QED BY <2>1, <3>1, <4>1, <4>2 DEF ChainIsStack
    <3>2. CASE i \notin DOMAIN dialogs
      <4>1. i = Len(dialogs) + 1 /\ dialogs'[i] = l
        BY <2>1, <2>2, <3>2
      <4>2. i # 1 => dialogs # <<>> /\ dialogs'[i - 1] = Last(dialogs)
        BY <2>1, <2>2, <4>1 DEF Last
      <4>3. i = 1 => dialogs = <<>>
        BY <2>2, <4>1
      <4>4. prev'[l] = active
        BY <2>1, <2>2
      <4> QED BY <2>1, <4>1, <4>2, <4>3, <4>4 DEF ChainIsStack
    <3> QED BY <3>1, <3>2
  <2> QED BY <2>3, <2>4 DEF ChainIsStack
<1>2. ASSUME NEW d \in Lookups, Close(d) PROVE ChainIsStack'
  <2>1. ~mixed /\ dialogs # <<>> /\ d = Last(dialogs)
    BY <1>2, UsedIsActive DEF Close
  <2> QED BY <1>2, <2>1, TopOff DEF Close
<1>3. ASSUME NEW d \in Lookups, Pick(d) PROVE ChainIsStack'
  <2>1. ~mixed /\ dialogs # <<>> /\ d = Last(dialogs) /\ active = d /\ IsOpen(active)
    BY <1>3, UsedIsActive DEF Pick
  <2> QED BY <1>3, <2>1, TopOff DEF Pick, CloseLookup
<1>4. ASSUME UNCHANGED <<active, prev, dialogs>>, ~mixed PROVE ChainIsStack'
  BY <1>4 DEF ChainIsStack
<1>5. ASSUME NEW d \in Lookups, Follow(d) \/ Submit(d) PROVE ChainIsStack'
  <2>1. ~mixed
    BY <1>5 DEF Follow, Submit, Mixes
  <2> QED BY <1>4, <1>5, <2>1 DEF Follow, Submit
<1>6. CASE Reload
  BY <1>6 DEF Reload, ChainIsStack
<1>7. CASE UNCHANGED vars
  BY <1>4, <1>7 DEF vars
<1>8. ASSUME NEW r \in requests, Answer(r) \/ RequestFails(r) PROVE ChainIsStack'
  BY <1>4, <1>8 DEF Answer, RequestFails
<1> QED BY <1>1, <1>2, <1>3, <1>5, <1>6, <1>7, <1>8 DEF Next, OpenFails

\* For any lookups, modal or not: used in the order in which they lie on each
\* other, the dialogs are the chain of the lookups from the active one down.
THEOREM Chained == Spec => []ChainIsStack
<1>1. Init => TypeOK /\ NoRepeats /\ ChainIsStack
  BY InitHolds DEF IInv
<1> QED BY <1>1, TypeStep, NoRepeatsStep, ChainStep, PTL DEF Spec

\* Then a picked value gets into the field of its dialog, and closes it.
THEOREM ValuesArrive == Spec => ValuesGoHome
<1>1. Init => TypeOK /\ NoRepeats /\ ChainIsStack
  BY InitHolds DEF IInv
<1>2. TypeOK /\ ChainIsStack /\ [Next]_vars =>
        [\A d \in Lookups : Pick(d) /\ ~mixed' => field'[d] = d /\ dialogs' = Without(dialogs, d)]_vars
  <2> SUFFICES ASSUME TypeOK, ChainIsStack, NEW d \in Lookups, Pick(d), ~mixed'
               PROVE  field'[d] = d /\ dialogs' = Without(dialogs, d)
    OBVIOUS
  <2>1. active = d /\ IsOpen(active) /\ active # None
    BY UsedIsActive, LookupsAssumption DEF Pick
  <2> QED BY <2>1 DEF Pick, CloseLookup, TypeOK
<1> QED BY <1>1, <1>2, TypeStep, NoRepeatsStep, ChainStep, PTL DEF Spec, ValuesGoHome

-----------------------------------------------------------------------------
(* Answers *)

\* What an answer does to a dialog that it is not for, and the global does not
\* name, is nothing.
LEMMA AnswerContent ==
  ASSUME TypeOK, NEW r \in requests, Answer(r), NEW l \in Lookups
  PROVE  LET whose == IF r.kind = "link" THEN lookupId ELSE r.into
             old == IF l = r.into THEN [by |-> r.by, rewrites |-> 0] ELSE content[l]
         IN content'[l] = IF l = whose THEN Rewritten(old) ELSE old
<1> DEFINE whose == IF r.kind = "link" THEN lookupId ELSE r.into
           raw == [content EXCEPT ![r.into] = [by |-> r.by, rewrites |-> 0]]
<1>1. content' = [raw EXCEPT ![whose] = Rewritten(@)]
  BY DEF Answer
<1>2. DOMAIN content = Lookups
  BY DEF TypeOK
<1>3. DOMAIN raw = Lookups /\ raw[l] = IF l = r.into THEN [by |-> r.by, rewrites |-> 0] ELSE content[l]
  BY <1>2
<1> HIDE DEF raw, whose
<1>4. content'[l] = IF l = whose THEN Rewritten(raw[l]) ELSE raw[l]
  BY <1>1, <1>3
<1> QED BY <1>3, <1>4 DEF whose

\* Rewriting tells of the asker only that there is one.
LEMMA RewrittenBy == \A c : Rewritten(c).by = c.by \/ c \notin [by : Lookups \cup {None}, rewrites : 0..2]
BY DEF Rewritten

LEMMA HomeStep ==
  /\ TypeOK /\ ChainIsStack /\ RequestsStayHome /\ AnswersStayHome /\ [Next]_vars
  => RequestsStayHome' /\ AnswersStayHome'
<1> SUFFICES ASSUME TypeOK, ChainIsStack, RequestsStayHome, AnswersStayHome, [Next]_vars, ~mixed'
             PROVE  /\ \A r \in requests' : r.by = r.into
                    /\ \A l \in Lookups : content'[l].by \in {l, None}
  BY DEF RequestsStayHome, AnswersStayHome
<1> DEFINE Goal == /\ \A r \in requests' : r.by = r.into
                   /\ \A l \in Lookups : content'[l].by \in {l, None}
<1>1. ASSUME ~mixed
      PROVE  /\ \A r \in requests : r.by = r.into
             /\ \A l \in Lookups : content[l].by \in {l, None}
  BY <1>1 DEF RequestsStayHome, AnswersStayHome
<1>2. ASSUME NEW l \in Lookups, Open(l) PROVE Goal
  <2>1. ~mixed /\ Send("open", l, l) /\ "open" \in Kinds
    BY <1>2 DEF Open, Kinds
  <2>2. \A r \in requests' : r.by = r.into
    BY <1>1, <2>1, SendType
  <2>3. content' = [content EXCEPT ![l] = Empty] /\ Empty.by = None
    BY <1>2 DEF Open, Empty
  <2> QED BY <1>1, <2>1, <2>2, <2>3 DEF TypeOK
<1>3. ASSUME NEW d \in Lookups, NEW kind \in Kinds, Usable(d), Mixes(d), Send(kind, active, d),
             UNCHANGED content
      PROVE  Goal
  <2>1. ~mixed /\ active = d
    BY <1>3, UsedIsActive
  <2>2. \A r \in requests' : r.by = r.into
    BY <1>1, <1>3, <2>1, SendType
  <2> QED BY <1>1, <1>3, <2>1, <2>2
<1>4. ASSUME NEW d \in Lookups, Follow(d) \/ Submit(d) PROVE Goal
  BY <1>3, <1>4 DEF Follow, Submit, Kinds
<1>5. ASSUME requests' = requests, content' = content, ~mixed PROVE Goal
  BY <1>1, <1>5
<1>6. ASSUME NEW d \in Lookups, Close(d) \/ Pick(d) PROVE Goal
  <2>1. ~mixed
    BY <1>6 DEF Close, Pick, Mixes
  <2> QED BY <1>5, <1>6, <2>1 DEF Close, Pick
<1>7. ASSUME NEW r \in requests, Answer(r) PROVE Goal
  <2>1. ~mixed /\ requests' \subseteq requests /\ r.by = r.into
    BY <1>1, <1>7 DEF Answer
  <2>2. ASSUME NEW l \in Lookups PROVE content'[l].by \in {l, None}
    <3> DEFINE old == IF l = r.into THEN [by |-> r.by, rewrites |-> 0] ELSE content[l]
    <3>1. old.by \in {l, None}
      BY <1>1, <2>1
    <3>2. old \in [by : Lookups \cup {None}, rewrites : 0..2]
      BY DEF TypeOK, Request
    <3>3. content'[l] = old \/ content'[l] = Rewritten(old)
      BY <1>7, AnswerContent
    <3> HIDE DEF old
    <3> QED BY <3>1, <3>2, <3>3, RewrittenBy
  <2> QED BY <1>1, <2>1, <2>2
<1>8. ASSUME NEW r \in requests, RequestFails(r) PROVE Goal
  <2>1. ~mixed /\ requests' \subseteq requests
    BY <1>8 DEF RequestFails
  <2>2. ASSUME NEW l \in Lookups PROVE content'[l].by \in {l, None}
    <3>1. content[l] \in [by : Lookups \cup {None}, rewrites : 0..2] /\ DOMAIN content = Lookups
      BY DEF TypeOK
    <3>2. content'[l] = content[l] \/ content'[l] = Rewritten(content[l])
      BY <1>8, <3>1 DEF RequestFails
    <3> QED BY <1>1, <2>1, <3>1, <3>2, RewrittenBy
  <2> QED BY <1>1, <2>1, <2>2
<1>9. CASE Reload
  <2>1. requests' = {} /\ \A l \in Lookups : content'[l] = Empty
    BY <1>9 DEF Reload
  <2> QED BY <2>1 DEF Empty
<1>10. CASE UNCHANGED vars
  BY <1>5, <1>10 DEF vars
<1> QED BY <1>2, <1>4, <1>6, <1>7, <1>8, <1>9, <1>10 DEF Next, OpenFails

\* For any lookups and any order of the answers: used in order, a dialog shows
\* answers that were asked for in it.
THEOREM AnswersArrive == Spec => []AnswersStayHome
<1>1. Init => TypeOK /\ NoRepeats /\ ChainIsStack /\ RequestsStayHome /\ AnswersStayHome
  BY InitHolds DEF IInv
<1> QED BY <1>1, TypeStep, NoRepeatsStep, ChainStep, HomeStep, PTL DEF Spec

LEMMA RewriteStep ==
  TypeOK /\ OverlapsAreKnown /\ RewrittenOnce /\ [Next]_vars => OverlapsAreKnown' /\ RewrittenOnce'
<1> SUFFICES ASSUME TypeOK, OverlapsAreKnown, RewrittenOnce, [Next]_vars
             PROVE  OverlapsAreKnown' /\ RewrittenOnce'
  OBVIOUS
<1>1. content \in [Lookups -> [by : Lookups \cup {None}, rewrites : 0..2]] /\ DOMAIN content = Lookups
  BY DEF TypeOK
<1>2. ASSUME UNCHANGED <<requests, content, lookupId, crossed>>
      PROVE  OverlapsAreKnown' /\ RewrittenOnce'
  BY <1>2 DEF OverlapsAreKnown, RewrittenOnce
<1>3. ASSUME NEW l \in Lookups, Open(l) PROVE OverlapsAreKnown' /\ RewrittenOnce'
  <2>1. Send("open", l, l) /\ "open" \in Kinds /\ UNCHANGED <<lookupId, crossed>>
    BY <1>3 DEF Open, Kinds
  <2>2. \A r \in requests' : r \in requests \/ r.kind = "open"
    BY <2>1, SendType
  <2>3. OverlapsAreKnown'
    BY <2>1, <2>2 DEF OverlapsAreKnown
  <2>4. content' = [content EXCEPT ![l] = Empty] /\ Empty.by = None
    BY <1>3 DEF Open, Empty
  <2>5. RewrittenOnce'
    BY <1>1, <2>1, <2>4 DEF RewrittenOnce
  <2> QED BY <2>3, <2>5
<1>4. ASSUME NEW d \in Lookups, Close(d) \/ Pick(d) PROVE OverlapsAreKnown' /\ RewrittenOnce'
  BY <1>2, <1>4 DEF Close, Pick
<1>5. ASSUME NEW d \in Lookups, Follow(d) PROVE OverlapsAreKnown' /\ RewrittenOnce'
  <2>1. active \in Lookups /\ Send("link", active, d) /\ "link" \in Kinds /\ lookupId' = active
    BY <1>5 DEF Follow, TypeOK, Kinds
  <2>2. \A r \in requests' : r \in requests \/ r.into = active
    BY <2>1, SendType
  <2> DEFINE others == {r.into : r \in {q \in requests : q.kind = "link"}}
  <2>3. crossed' = IF others \subseteq {active} THEN crossed ELSE crossed \cup others \cup {active}
    BY <1>5 DEF Follow
  <2>4. \A r \in requests : r.kind = "link" => r.into \in others
    OBVIOUS
  <2> HIDE DEF others
  <2>5. \A r \in requests : r.kind = "link" /\ r.into # active => {r.into, active} \subseteq crossed'
    BY <2>3, <2>4
  <2>6. OverlapsAreKnown'
    BY <2>1, <2>2, <2>5 DEF OverlapsAreKnown
  <2>7. RewrittenOnce'
    BY <1>5, <2>3 DEF Follow, RewrittenOnce
  <2> QED BY <2>6, <2>7
<1>6. ASSUME NEW d \in Lookups, Submit(d) PROVE OverlapsAreKnown' /\ RewrittenOnce'
  <2>1. /\ active \in Lookups /\ Send("form", active, d) /\ "form" \in Kinds
        /\ UNCHANGED <<content, lookupId, crossed>>
    BY <1>6 DEF Submit, TypeOK, Kinds
  <2>2. \A r \in requests' : r \in requests \/ r.kind = "form"
    BY <2>1, SendType
  <2> QED BY <2>1, <2>2 DEF OverlapsAreKnown, RewrittenOnce
<1>7. ASSUME NEW r \in requests, Answer(r) PROVE OverlapsAreKnown' /\ RewrittenOnce'
  <2>1. requests' \subseteq requests /\ UNCHANGED <<lookupId, crossed>>
    BY <1>7 DEF Answer
  <2>2. ASSUME NEW l \in Lookups, content'[l].by # None, content'[l].rewrites # 1 PROVE l \in crossed
    <3> DEFINE whose == IF r.kind = "link" THEN lookupId ELSE r.into
               old == IF l = r.into THEN [by |-> r.by, rewrites |-> 0] ELSE content[l]
    <3>1. content'[l] = IF l = whose THEN Rewritten(old) ELSE old
      BY <1>7, AnswerContent
    <3>2. r.by # None
      BY LookupsAssumption DEF TypeOK, Request
    <3>3. CASE l = r.into /\ l = whose
      BY <2>2, <3>1, <3>2, <3>3 DEF Rewritten
    <3>4. CASE l = r.into /\ l # whose
      BY <3>4 DEF OverlapsAreKnown
    <3>5. CASE l # r.into /\ l = whose
      BY <3>5 DEF OverlapsAreKnown
    <3>6. CASE l # r.into /\ l # whose
      BY <2>2, <3>1, <3>6 DEF RewrittenOnce
    <3> QED BY <3>3, <3>4, <3>5, <3>6
  <2> QED BY <2>1, <2>2 DEF OverlapsAreKnown, RewrittenOnce
<1>8. ASSUME NEW r \in requests, RequestFails(r) PROVE OverlapsAreKnown' /\ RewrittenOnce'
  <2>1. requests' \subseteq requests /\ lookupId' = lookupId /\ crossed \subseteq crossed'
    BY <1>8 DEF RequestFails
  <2>2. ASSUME NEW l \in Lookups PROVE content'[l] = content[l] \/ l \in crossed'
    BY <1>1, <1>8 DEF RequestFails
  <2> QED BY <2>1, <2>2 DEF OverlapsAreKnown, RewrittenOnce
<1>9. CASE Reload
  <2>1. requests' = {} /\ \A l \in Lookups : content'[l] = Empty
    BY <1>9 DEF Reload
  <2> QED BY <2>1 DEF Empty, OverlapsAreKnown, RewrittenOnce
<1>10. CASE UNCHANGED vars
  BY <1>2, <1>10 DEF vars
<1> QED BY <1>3, <1>4, <1>5, <1>6, <1>7, <1>8, <1>9, <1>10 DEF Next, OpenFails

\* For any lookups: an answer whose links are not rewritten once is one of a
\* dialog whose link requests have overlapped with another's, or failed.
THEOREM Rewrites == Spec => []RewrittenOnce
<1>1. Init => TypeOK /\ OverlapsAreKnown /\ RewrittenOnce
  BY InitHolds DEF IInv
<1> QED BY <1>1, TypeStep, RewriteStep, PTL DEF Spec

=============================================================================
