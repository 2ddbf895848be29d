----------------------------- MODULE RequestsProofs -----------------------------
(* What holds however many requests overlap.  Of the commands on an invoice:   *)
(* the number allocation serializes, and pages keep saying the number of their *)
(* row.  Of those on a month under review and on its way to an invoice: what a *)
(* transaction has read is still so as long as it is not stale; with that, a   *)
(* month whose commands never overtake a hand-off is settled.                  *)
EXTENDS InvoiceRequests, BillingRequests, TLAPS

-----------------------------------------------------------------------------
(* InvoiceRequests *)

\* Every step of the system is one step of one request.
LEMMA StepCases ==
    ASSUME [NextRequests]_rvars
    PROVE  \/ \E r \in Requests :
                \/ Check(r) \/ AllocateNumber(r) \/ WriteNumber(r) \/ CommitIssue(r)
                \/ CommitStatus(r) \/ CommitDelete(r)
                \/ Refused(r) \/ RollBack(r)
           \/ UNCHANGED rvars
  BY DEF NextRequests, Proceed

-----------------------------------------------------------------------------
(* The inductive invariant *)

\* A number is drawn exactly between the allocation and the end of the transaction.
DrawnWhileIssuing ==
    \A r \in Requests : drawn[r] # NoNumber <=> step[r] \in {"numbered", "rendered"}

\* Whoever has drawn a number holds the settings row, and the counter with it.
DrawnUnderLock ==
    \A r \in Requests : drawn[r] # NoNumber => settingsLock = r /\ drawn[r] = nextNumber

NumbersBelowCounter ==
    \A i \in Invoices : number[i] # NoNumber => number[i] < nextNumber

\* A request that found its invoice issued never finds it a draft again.
CheckedStaysIssued ==
    \A r \in Requests :
        step[r] = "checked" /\ command[r] \in {"pay", "void"} => status[target[r]] # "draft"

-----------------------------------------------------------------------------
\* Types need the draws: a counter is committed as the number drawn plus one.
LEMMA TypesAndDraws == SpecRequests => [](RequestTypes /\ DrawnWhileIssuing)
<1> USE InvoiceRequestsAssumption DEF InvoiceRequestsAssumption
<1>1. InitRequests => RequestTypes
  BY DEF InitRequests, RequestTypes, Steps, Numbers
<1>2. InitRequests => DrawnWhileIssuing
  BY DEF InitRequests, DrawnWhileIssuing
<1>3. RequestTypes /\ DrawnWhileIssuing /\ [NextRequests]_rvars => RequestTypes'
  <2> SUFFICES ASSUME RequestTypes, DrawnWhileIssuing, [NextRequests]_rvars
               PROVE  RequestTypes'
    OBVIOUS
  <2> USE DEF RequestTypes, Steps, Numbers, rows, locks
  <2>1. ASSUME NEW r \in Requests, Check(r)
        PROVE  RequestTypes'
    BY <2>1 DEF Check
  <2>2. ASSUME NEW r \in Requests, AllocateNumber(r)
        PROVE  RequestTypes'
    BY <2>2 DEF AllocateNumber
  <2>3. ASSUME NEW r \in Requests, WriteNumber(r)
        PROVE  RequestTypes'
    BY <2>3 DEF WriteNumber
  <2>4. ASSUME NEW r \in Requests, End(r)
        PROVE  /\ step' \in [Requests -> Steps]
               /\ command' \in [Requests -> InvoiceCommands]
               /\ target' \in [Requests -> Invoices]
               /\ drawn' \in [Requests -> Numbers \cup {NoNumber}]
               /\ settingsLock' \in Requests \cup {NoRequest}
               /\ rowLock' \in [Invoices -> Requests \cup {NoRequest}]
    BY <2>4 DEF End, Release
  <2>5. ASSUME NEW r \in Requests, CommitIssue(r)
        PROVE  RequestTypes'
    <3>1. drawn[r] \in Numbers
      BY <2>5 DEF CommitIssue, DrawnWhileIssuing
    <3> QED
      BY <2>4, <2>5, <3>1 DEF CommitIssue
  <2>6. ASSUME NEW r \in Requests, CommitStatus(r)
        PROVE  RequestTypes'
    BY <2>4, <2>6 DEF CommitStatus, OutcomeOf
  <2>7. ASSUME NEW r \in Requests, CommitDelete(r)
        PROVE  RequestTypes'
    BY <2>4, <2>7 DEF CommitDelete
  <2>8. ASSUME NEW r \in Requests, Refused(r) \/ RollBack(r)
        PROVE  RequestTypes'
    BY <2>4, <2>8 DEF Refused, RollBack
  <2>9. CASE UNCHANGED rvars
    BY <2>9 DEF rvars
  <2> QED
    BY <2>1, <2>2, <2>3, <2>5, <2>6, <2>7, <2>8, <2>9, StepCases
<1>4. RequestTypes /\ DrawnWhileIssuing /\ [NextRequests]_rvars => DrawnWhileIssuing'
  <2> SUFFICES ASSUME RequestTypes, DrawnWhileIssuing, [NextRequests]_rvars
               PROVE  DrawnWhileIssuing'
    OBVIOUS
  <2> USE DEF RequestTypes, DrawnWhileIssuing, Numbers
  <2>1. ASSUME NEW r \in Requests, Check(r) \/ AllocateNumber(r) \/ WriteNumber(r)
        PROVE  DrawnWhileIssuing'
    BY <2>1 DEF Check, AllocateNumber, WriteNumber
  <2>2. ASSUME NEW r \in Requests, End(r)
        PROVE  DrawnWhileIssuing'
    BY <2>2 DEF End, Steps
  <2>3. ASSUME NEW r \in Requests,
               \/ CommitIssue(r) \/ CommitStatus(r) \/ CommitDelete(r)
               \/ Refused(r) \/ RollBack(r)
        PROVE  DrawnWhileIssuing'
    BY <2>2, <2>3 DEF CommitIssue, CommitStatus, CommitDelete, Refused, RollBack
  <2>4. CASE UNCHANGED rvars
    BY <2>4 DEF rvars
  <2> QED
    BY <2>1, <2>3, <2>4, StepCases
<1> QED
  BY <1>1, <1>2, <1>3, <1>4, PTL DEF SpecRequests

\* The types of the rows, the transactions and the locks.
THEOREM InvoiceRequestsAreTyped == SpecRequests => []RequestTypes
  BY TypesAndDraws, PTL

-----------------------------------------------------------------------------
(* The allocation of numbers *)

\* Concurrent allocations serialize on the settings row: a drawn number is the
\* counter's, is on no invoice and is drawn by no one else.
THEOREM AllocationsAreSerial == SpecRequests => []AllocationsSerialize
<1> USE InvoiceRequestsAssumption DEF InvoiceRequestsAssumption
<1> DEFINE Inv == DrawnUnderLock /\ NumbersBelowCounter
<1>1. InitRequests => Inv
  BY DEF InitRequests, DrawnUnderLock, NumbersBelowCounter
<1>2. RequestTypes /\ DrawnWhileIssuing /\ Inv /\ [NextRequests]_rvars => Inv'
  <2> SUFFICES ASSUME RequestTypes, DrawnWhileIssuing, Inv, [NextRequests]_rvars
               PROVE  Inv'
    OBVIOUS
  <2> USE DEF RequestTypes, DrawnUnderLock, NumbersBelowCounter, rows, locks
  <2>1. ASSUME NEW r \in Requests, Check(r) \/ WriteNumber(r)
        PROVE  Inv'
    BY <2>1 DEF Check, WriteNumber
  <2>2. ASSUME NEW r \in Requests, AllocateNumber(r)
        PROVE  Inv'
    <3>1. \A q \in Requests : drawn[q] = NoNumber
      BY <2>2 DEF AllocateNumber
    <3> QED
      BY <2>2, <3>1 DEF AllocateNumber
  <2>3. ASSUME NEW r \in Requests, End(r)
        PROVE  \A q \in Requests : drawn'[q] # NoNumber =>
                   q # r /\ drawn'[q] = drawn[q] /\ settingsLock' = settingsLock
    BY <2>3 DEF End, Release
  <2>4. ASSUME NEW r \in Requests, CommitIssue(r)
        PROVE  Inv'
    <3>1. drawn[r] = nextNumber /\ settingsLock = r
      BY <2>4 DEF CommitIssue, DrawnWhileIssuing
    <3>2. \A q \in Requests : drawn'[q] = NoNumber
      BY <2>3, <2>4, <3>1 DEF CommitIssue
    <3>3. /\ nextNumber' = nextNumber + 1
          /\ \A i \in Invoices : number'[i] \in {number[i], nextNumber}
      BY <2>4, <3>1 DEF CommitIssue
    <3>4. nextNumber \in Nat /\ \A i \in Invoices : number[i] # NoNumber => number[i] \in Nat
      BY DEF Numbers
    <3> QED
      BY <3>2, <3>3, <3>4
  <2>5. ASSUME NEW r \in Requests,
               CommitStatus(r) \/ CommitDelete(r) \/ Refused(r) \/ RollBack(r)
        PROVE  Inv'
    <3>1. /\ End(r)
          /\ nextNumber' = nextNumber
          /\ \A i \in Invoices : number'[i] \in {number[i], NoNumber}
      BY <2>5 DEF CommitStatus, CommitDelete, Refused, RollBack
    <3> QED
      BY <2>3, <3>1
  <2>6. CASE UNCHANGED rvars
    BY <2>6 DEF rvars
  <2> QED
    BY <2>1, <2>2, <2>4, <2>5, <2>6, StepCases
<1>3. RequestTypes /\ Inv => AllocationsSerialize
  BY DEF RequestTypes, DrawnUnderLock, NumbersBelowCounter, AllocationsSerialize, Numbers
<1> QED
  BY <1>1, <1>2, <1>3, TypesAndDraws, PTL DEF SpecRequests

-----------------------------------------------------------------------------
(* Pages *)

\* An invoice prints the number it has, and one that left the draft has one.
THEOREM PagesPrintNumbers == SpecRequests => []PagePrintsNumber
<1> USE InvoiceRequestsAssumption DEF InvoiceRequestsAssumption
<1> DEFINE Inv == PagePrintsNumber /\ CheckedStaysIssued
<1>1. InitRequests => Inv
  BY DEF InitRequests, PagePrintsNumber, CheckedStaysIssued
<1>2. RequestTypes /\ DrawnWhileIssuing /\ Inv /\ [NextRequests]_rvars => Inv'
  <2> SUFFICES ASSUME RequestTypes, DrawnWhileIssuing, Inv, [NextRequests]_rvars
               PROVE  Inv'
    OBVIOUS
  <2> USE DEF RequestTypes, PagePrintsNumber, CheckedStaysIssued, rows, locks
  <2>1. ASSUME NEW r \in Requests, Check(r)
        PROVE  Inv'
    BY <2>1 DEF Check, Accepts, InvoiceCommands
  <2>2. ASSUME NEW r \in Requests, AllocateNumber(r) \/ WriteNumber(r)
        PROVE  Inv'
    BY <2>2 DEF AllocateNumber, WriteNumber
  <2>3. ASSUME NEW r \in Requests, End(r),
               \A i \in Invoices : status'[i] = "draft" => status[i] = "draft"
        PROVE  CheckedStaysIssued'
    BY <2>3 DEF End
  <2>4. ASSUME NEW r \in Requests, CommitIssue(r)
        PROVE  Inv'
    <3>1. drawn[r] # NoNumber
      BY <2>4 DEF CommitIssue, DrawnWhileIssuing
    <3> QED
      BY <2>3, <2>4, <3>1 DEF CommitIssue
  <2>5. ASSUME NEW r \in Requests, CommitStatus(r)
        PROVE  Inv'
    <3>1. status[target[r]] \in {"issued", "paid", "void"}
      BY <2>5 DEF CommitStatus
    <3> QED
      BY <2>3, <2>5, <3>1 DEF CommitStatus, OutcomeOf
  <2>6. ASSUME NEW r \in Requests, CommitDelete(r)
        PROVE  Inv'
    BY <2>3, <2>6 DEF CommitDelete
  <2>7. ASSUME NEW r \in Requests, Refused(r) \/ RollBack(r)
        PROVE  Inv'
    BY <2>3, <2>7 DEF Refused, RollBack
  <2>8. CASE UNCHANGED rvars
    BY <2>8 DEF rvars
  <2> QED
    BY <2>1, <2>2, <2>4, <2>5, <2>6, <2>7, <2>8, StepCases
<1> QED
  BY <1>1, <1>2, TypesAndDraws, PTL DEF SpecRequests

-----------------------------------------------------------------------------
(* BillingRequests *)

USE BillingRequestsAssumption

-----------------------------------------------------------------------------
(* Types *)

\* No hours are a booking.
LEMMA NoHoursBooked == NoHours \in Booked
BY DEF NoHours, Booked

\* A connection without a transaction has a request too.
LEMMA IdleRequest == Idle \in Request
BY NoHoursBooked DEF Idle, Request

\* The types hold before any command,
LEMMA InitTypes == Init => TypeOK
<1>. SUFFICES ASSUME Init PROVE TypeOK
    OBVIOUS
<1>1. hours \in Booked /\ billed \in Booked /\ handed \in Booked
    BY NoHoursBooked DEF Init
<1>2. week \in [Weeks -> Status] /\ report \in [Reports -> Status]
    BY DEF Init, Status
<1>3. period \in 0..MaxSent /\ sent \in 0..MaxSent
    BY DEF Init
<1>4. request \in [Connections -> Request]
    BY IdleRequest DEF Init
<1>5. /\ locked \subseteq Reports /\ invoiced \in BOOLEAN /\ link \in BOOLEAN
      /\ stale \subseteq Connections /\ overtaken \in BOOLEAN
    BY DEF Init
<1>. QED BY <1>1, <1>2, <1>3, <1>4, <1>5 DEF TypeOK

\* Whatever a transaction reads is a request, so a step that only reads keeps the types.
LEMMA BeginTypes ==
    ASSUME TypeOK, NEW c \in Connections, NEW read \in Request, Begin(c, read)
    PROVE  TypeOK'
BY DEF TypeOK, Begin, reviewed, handoff, history

\* A further read keeps the types.
LEMMA ConfirmTypes ==
    ASSUME TypeOK, NEW c \in Connections, NEW read \in Request, Confirm(c, read)
    PROVE  TypeOK'
BY DEF TypeOK, Confirm, reviewed, handoff, history

\* A commit ends its transaction and makes others stale.
LEMMA CommitTypes ==
    ASSUME TypeOK, NEW c \in Connections, Commit(c)
    PROVE  /\ request' \in [Connections -> Request]
           /\ stale' \subseteq Connections
           /\ overtaken' \in BOOLEAN
<1>1. request' \in [Connections -> Request]
    BY IdleRequest DEF TypeOK, Commit
<1>2. stale' \subseteq Connections
    BY DEF TypeOK, Commit, Running
<1>3. overtaken' \in BOOLEAN
    BY DEF TypeOK, Commit
<1>. QED BY <1>1, <1>2, <1>3

\* The commands of users and reviewers keep the types,
LEMMA ReviewTypes ==
    ASSUME TypeOK, NEW c \in Connections, Review(c)
    PROVE  TypeOK'
<1>1. ASSUME NEW w \in Weeks, ReadWeek(c, w) PROVE TypeOK'
    <2>1. [Idle EXCEPT !.at = "reading", !.do = "save", !.of = w] \in Request
        BY IdleRequest DEF Idle, Request, Commands
    <2>2. [Idle EXCEPT !.at = "checked", !.do = "submit", !.of = w] \in Request
        BY IdleRequest DEF Idle, Request, Commands
    <2>3. [Idle EXCEPT !.at = "checked", !.do = "approve", !.of = w] \in Request
        BY IdleRequest DEF Idle, Request, Commands
    <2>4. [Idle EXCEPT !.at = "reading", !.do = "return", !.of = w] \in Request
        BY IdleRequest DEF Idle, Request, Commands
    <2>. QED BY <1>1, <2>1, <2>2, <2>3, <2>4, BeginTypes DEF ReadWeek
<1>2. ASSUME NEW r \in Reports, ReadReport(c, r) PROVE TypeOK'
    <2>1. [Idle EXCEPT !.at = "checked", !.do = "submit", !.of = r] \in Request
        BY IdleRequest DEF Idle, Request, Commands
    <2>2. [Idle EXCEPT !.at = "checked", !.do = "approve", !.of = r] \in Request
        BY IdleRequest DEF Idle, Request, Commands
    <2>3. [Idle EXCEPT !.at = "checked", !.do = "return", !.of = r] \in Request
        BY IdleRequest DEF Idle, Request, Commands
    <2>. QED BY <1>2, <2>1, <2>2, <2>3, BeginTypes DEF ReadReport
<1>3. ASSUME ReadPeriod(c) PROVE TypeOK'
    <2>1. [request[c] EXCEPT !.at = "checked"] \in Request
        BY DEF TypeOK, Request
    <2>. QED BY <1>3, <2>1, ConfirmTypes DEF ReadPeriod
<1>4. ASSUME SaveWeek(c) PROVE TypeOK'
    <2>1. hours' \in Booked
        BY <1>4 DEF SaveWeek, TypeOK, Booked
    <2>. QED BY <1>4, <2>1, CommitTypes DEF SaveWeek, TypeOK, handoff
<1>5. ASSUME ReviewWeek(c) PROVE TypeOK'
    <2>1. week' \in [Weeks -> Status]
        BY <1>5 DEF ReviewWeek, TypeOK, Status, Outcome
    <2>. QED BY <1>5, <2>1, CommitTypes DEF ReviewWeek, TypeOK, handoff
<1>6. ASSUME ReviewReport(c) PROVE TypeOK'
    <2>1. report' \in [Reports -> Status]
        BY <1>6 DEF ReviewReport, TypeOK, Status, Outcome
    <2>. QED BY <1>6, <2>1, CommitTypes DEF ReviewReport, TypeOK, handoff
<1>. QED BY <1>1, <1>2, <1>3, <1>4, <1>5, <1>6 DEF Review

\* those of the hand-off do,
LEMMA HandOffTypes ==
    ASSUME TypeOK, NEW c \in Connections, HandOff(c)
    PROVE  TypeOK'
<1>1. ASSUME ReadEntries(c) PROVE TypeOK'
    <2>1. [Idle EXCEPT !.at = "reading", !.do = "send", !.scope = Scope] \in Request
        BY IdleRequest DEF Idle, Request, Commands, Handoffs, Scope
    <2>. QED BY <1>1, <2>1, BeginTypes DEF ReadEntries
<1>2. ASSUME ReadReadiness(c) \/ ReadExportRows(c) PROVE TypeOK'
    <2>1. [request[c] EXCEPT !.at = "checked"] \in Request
        BY DEF TypeOK, Request
    <2>2. [request[c] EXCEPT !.at = "checked", !.lines = hours] \in Request
        BY DEF TypeOK, Request
    <2>. QED BY <1>2, <2>1, <2>2, ConfirmTypes DEF ReadReadiness, ReadExportRows
<1>3. ASSUME ReadFreePeriod(c) PROVE TypeOK'
    <2>1. [Idle EXCEPT !.at = "checked", !.do = "reopen", !.row = period] \in Request
        BY IdleRequest DEF TypeOK, Idle, Request, Commands, Handoffs
    <2>. QED BY <1>3, <2>1, BeginTypes DEF ReadFreePeriod
<1>4. ASSUME ReadEligibility(c) PROVE TypeOK'
    <2>1. [Idle EXCEPT !.at = "reading", !.do = "invoice"] \in Request
        BY IdleRequest DEF Idle, Request, Commands, Handoffs
    <2>. QED BY <1>4, <2>1, BeginTypes DEF ReadEligibility
<1>5. ASSUME SendToBilling(c) PROVE TypeOK'
    <2>1. sent + 1 \in 0..MaxSent
        BY <1>5 DEF SendToBilling, TypeOK
    <2>. QED BY <1>5, <2>1, CommitTypes DEF SendToBilling, TypeOK, reviewed
<1>6. ASSUME ReopenPeriod(c) PROVE TypeOK'
    <2>1. period' \in {0, period} /\ invoiced' \in {FALSE, invoiced}
        BY <1>6 DEF ReopenPeriod
    <2>2. period' \in 0..MaxSent
        BY <2>1 DEF TypeOK
    <2>3. invoiced' \in BOOLEAN
        BY <2>1 DEF TypeOK
    <2>. QED BY <1>6, <2>2, <2>3, CommitTypes DEF ReopenPeriod, TypeOK, reviewed
<1>7. ASSUME CreateDraft(c) PROVE TypeOK'
    <2>1. billed' \in Booked
        BY <1>7 DEF CreateDraft, TypeOK, Request
    <2>. QED BY <1>7, <2>1, CommitTypes DEF CreateDraft, TypeOK, reviewed
<1>. QED BY <1>1, <1>2, <1>3, <1>4, <1>5, <1>6, <1>7 DEF HandOff

\* and so does every step.
LEMMA NextTypes == TypeOK /\ [Next]_vars => TypeOK'
<1>. SUFFICES ASSUME TypeOK, [Next]_vars PROVE TypeOK'
    OBVIOUS
<1>1. ASSUME NEW c \in Connections, Rollback(c) PROVE TypeOK'
    BY <1>1, IdleRequest DEF Rollback, TypeOK, reviewed, handoff
<1>2. CASE UNCHANGED vars
    BY <1>2 DEF TypeOK, vars, reviewed, handoff, history
<1>. QED BY <1>1, <1>2, ReviewTypes, HandOffTypes DEF Next

\* Rows, transactions and histories have their types, for any number of connections.
THEOREM BillingRequestsAreTyped == Spec => []TypeOK
<1>1. Init => TypeOK
    BY InitTypes
<1>2. TypeOK /\ [Next]_vars => TypeOK'
    BY NextTypes
<1>. QED BY <1>1, <1>2, PTL DEF Spec

-----------------------------------------------------------------------------
(* What a transaction has read *)

\* What the writes of a transaction that is not stale rest on: its reads, which still
\* hold.  An approval rests on none.
Basis(q) ==
    /\ q.at = "reading" /\ q.do = "return" => q.of \notin Reports
    /\ q.at = "checked" /\ q.do = "save" => ~ Sent
    /\ q.at = "checked" /\ q.do \in {"submit", "return"}
           => (Sent => q.of \notin Scope /\ q.of \notin Reports)
    /\ q.do = "send" => ~ Sent /\ q.scope = Scope
    /\ q.at = "checked" /\ q.do = "send"
           => /\ \A w \in Scope : week[w] = "approved"
              /\ \A r \in Reports : report[r] = "approved"
    /\ q.at = "checked" /\ q.do = "reopen" => q.row = period /\ ~ invoiced
    /\ q.at = "checked" /\ q.do = "invoice" => q.lines = hours

Undisturbed == HandedOffSettled /\ \A c \in Running \ stale : Basis(request[c])

IInv == TypeOK /\ (overtaken \/ Undisturbed)

\* Nothing is sent at first.
LEMMA InitUndisturbed == Init => Undisturbed
BY DEF Init, Undisturbed, HandedOffSettled, Sent, Running, Idle

\* Whatever was a basis stays one as long as no row changes.
LEMMA BasisKept ==
    ASSUME NEW q, Basis(q), UNCHANGED <<reviewed, handoff>>
    PROVE  Basis(q)'
BY DEF Basis, Sent, Scope, reviewed, handoff

\* Nor is a month unsettled as long as no row changes.
LEMMA SettledKept ==
    ASSUME HandedOffSettled, UNCHANGED <<reviewed, handoff>>
    PROVE  HandedOffSettled'
BY DEF HandedOffSettled, Sent, Scope, reviewed, handoff

\* A step that only reads owes nothing but the basis of what it has read.
LEMMA ReadKeeps ==
    ASSUME TypeOK, Undisturbed, NEW c \in Connections, NEW read,
           Begin(c, read) \/ Confirm(c, read), c \notin stale => Basis(read)
    PROVE  Undisturbed'
<1>1. UNCHANGED <<reviewed, handoff>> /\ stale' = stale
    BY DEF Begin, Confirm, history
<1>2. /\ request'[c] = read
      /\ \A d \in Connections \ {c} : request'[d] = request[d]
    BY DEF TypeOK, Begin, Confirm
<1>3. ASSUME NEW d \in Running' \ stale', d # c PROVE Basis(request[d])'
    <2>1. d \in Connections /\ d \in Running \ stale /\ request'[d] = request[d]
        BY <1>1, <1>2, <1>3 DEF Running
    <2>2. Basis(request[d])
        BY <2>1 DEF Undisturbed
    <2>. QED BY <1>1, <2>1, <2>2 DEF Basis, Sent, Scope, reviewed, handoff
<1>4. c \in Running' \ stale' => Basis(request[c])'
    BY <1>1, <1>2 DEF Basis, Sent, Scope, reviewed, handoff
<1>. QED BY <1>1, <1>3, <1>4, SettledKept DEF Undisturbed

\* The reads of a review command give it its basis.
LEMMA ReviewReadsKeep ==
    ASSUME TypeOK, Undisturbed, NEW c \in Connections,
           \/ \E w \in Weeks : ReadWeek(c, w)
           \/ \E r \in Reports : ReadReport(c, r)
           \/ ReadPeriod(c)
    PROVE  Undisturbed'
<1>1. ASSUME NEW w \in Weeks, ReadWeek(c, w) PROVE Undisturbed'
    <2>. DEFINE save    == [Idle EXCEPT !.at = "reading", !.do = "save", !.of = w]
                submit  == [Idle EXCEPT !.at = "checked", !.do = "submit", !.of = w]
                approve == [Idle EXCEPT !.at = "checked", !.do = "approve", !.of = w]
                return  == [Idle EXCEPT !.at = "reading", !.do = "return", !.of = w]
    <2>1. w \notin Reports
        OBVIOUS
    <2>2. Basis(save) /\ Basis(approve) /\ Basis(return)
        BY <2>1 DEF Basis, Idle
    <2>3. week[w] \in Editable => (Sent => w \notin Scope)
        BY DEF Undisturbed, HandedOffSettled, Editable
    <2>4. week[w] \in Editable => Basis(submit)
        BY <2>1, <2>3 DEF Basis, Idle
    <2>. QED BY <1>1, <2>2, <2>4, ReadKeeps DEF ReadWeek
<1>2. ASSUME NEW r \in Reports, ReadReport(c, r) PROVE Undisturbed'
    <2>. DEFINE submit  == [Idle EXCEPT !.at = "checked", !.do = "submit", !.of = r]
                approve == [Idle EXCEPT !.at = "checked", !.do = "approve", !.of = r]
                return  == [Idle EXCEPT !.at = "checked", !.do = "return", !.of = r]
    <2>1. report[r] \in Editable \/ r \notin locked => ~ Sent
        BY DEF Undisturbed, HandedOffSettled, Editable
    <2>2. Basis(approve)
        BY DEF Basis, Idle
    <2>3. ~ Sent => Basis(submit) /\ Basis(return)
        BY DEF Basis, Idle
    <2>. QED BY <1>2, <2>1, <2>2, <2>3, ReadKeeps DEF ReadReport
<1>3. ASSUME ReadPeriod(c) PROVE Undisturbed'
    <2>. DEFINE read == [request[c] EXCEPT !.at = "checked"]
    <2>1. /\ read.at = "checked" /\ read.do = request[c].do /\ read.of = Of(c)
          /\ request[c].at = "reading"
        BY <1>3 DEF ReadPeriod, Is, Of, TypeOK, Request
    <2>2. /\ request[c].do \in {"save", "return"}
          /\ request[c].do = "save" => ~ Sent
          /\ request[c].do = "return" => (Sent => Of(c) \notin Scope)
        BY <1>3 DEF ReadPeriod, Is
    <2>3. c \notin stale => Basis(request[c])
        BY <2>1 DEF Undisturbed, Running
    <2>4. c \notin stale => Basis(read)
        <3>. HIDE DEF read
        <3>. QED BY <2>1, <2>2, <2>3 DEF Basis, Of
    <2>. QED BY <1>3, <2>4, ReadKeeps DEF ReadPeriod
<1>. QED BY <1>1, <1>2, <1>3

\* The reads of a hand-off do.
LEMMA HandOffReadsKeep ==
    ASSUME TypeOK, Undisturbed, NEW c \in Connections,
           \/ ReadEntries(c) \/ ReadReadiness(c) \/ ReadFreePeriod(c)
           \/ ReadEligibility(c) \/ ReadExportRows(c)
    PROVE  Undisturbed'
<1>1. ASSUME ReadEntries(c) PROVE Undisturbed'
    <2>. DEFINE read == [Idle EXCEPT !.at = "reading", !.do = "send", !.scope = Scope]
    <2>1. Basis(read)
        BY <1>1 DEF ReadEntries, Basis, Idle
    <2>. QED BY <1>1, <2>1, ReadKeeps DEF ReadEntries
<1>2. ASSUME ReadReadiness(c) PROVE Undisturbed'
    <2>. DEFINE read == [request[c] EXCEPT !.at = "checked"]
    <2>1. /\ read.at = "checked" /\ read.do = "send" /\ read.scope = request[c].scope
          /\ request[c].at = "reading" /\ request[c].do = "send"
        BY <1>2 DEF ReadReadiness, Is, TypeOK, Request
    <2>2. c \notin stale => Basis(request[c])
        BY <2>1 DEF Undisturbed, Running
    <2>3. /\ \A w \in request[c].scope : week[w] = "approved"
          /\ \A r \in Reports : report[r] = "approved"
        BY <1>2 DEF ReadReadiness
    <2>4. c \notin stale => Basis(read)
        <3>. HIDE DEF read
        <3>. QED BY <2>1, <2>2, <2>3 DEF Basis
    <2>. QED BY <1>2, <2>4, ReadKeeps DEF ReadReadiness
<1>3. ASSUME ReadFreePeriod(c) PROVE Undisturbed'
    <2>. DEFINE read == [Idle EXCEPT !.at = "checked", !.do = "reopen", !.row = period]
    <2>1. Basis(read)
        BY <1>3 DEF ReadFreePeriod, Basis, Idle
    <2>. QED BY <1>3, <2>1, ReadKeeps DEF ReadFreePeriod
<1>4. ASSUME ReadEligibility(c) PROVE Undisturbed'
    <2>. DEFINE read == [Idle EXCEPT !.at = "reading", !.do = "invoice"]
    <2>1. Basis(read)
        BY DEF Basis, Idle
    <2>. QED BY <1>4, <2>1, ReadKeeps DEF ReadEligibility
<1>5. ASSUME ReadExportRows(c) PROVE Undisturbed'
    <2>. DEFINE read == [request[c] EXCEPT !.at = "checked", !.lines = hours]
    <2>1. read.at = "checked" /\ read.do = "invoice" /\ read.lines = hours
        BY <1>5 DEF ReadExportRows, Is, TypeOK, Request
    <2>2. Basis(read)
        <3>. HIDE DEF read
        <3>. QED BY <2>1 DEF Basis
    <2>. QED BY <1>5, <2>2, ReadKeeps DEF ReadExportRows
<1>. QED BY <1>1, <1>2, <1>3, <1>4, <1>5

-----------------------------------------------------------------------------
(* What a transaction writes *)

\* A commit leaves the others' reads as they are, and ends the transaction.
LEMMA CommitEnds ==
    ASSUME TypeOK, NEW c \in Connections, Commit(c)
    PROVE  \A d \in Running' \ stale' :
               /\ d # c /\ d \in Running \ stale /\ request'[d] = request[d]
               /\ request[c].do \notin Handoffs /\ request[d].do \notin Handoffs
BY DEF TypeOK, Commit, Running, Idle

\* After a hand-off nobody owes a basis: whoever is still running has become stale.
LEMMA HandOffCommits ==
    ASSUME TypeOK, NEW c \in Connections, Commit(c), request[c].do \in Handoffs,
           HandedOffSettled'
    PROVE  Undisturbed'
BY CommitEnds DEF Undisturbed

\* After a review those owe one who are reviewing too, and theirs stands as long as a sent
\* month keeps its weeks with hours.
LEMMA ReviewCommits ==
    ASSUME TypeOK, Undisturbed, NEW c \in Connections, Commit(c),
           UNCHANGED handoff, Sent => Scope' = Scope, HandedOffSettled'
    PROVE  Undisturbed'
<1>1. ASSUME NEW d \in Running' \ stale' PROVE Basis(request[d])'
    <2>1. /\ d \in Running \ stale /\ request'[d] = request[d]
          /\ request[d].do \notin Handoffs
        BY <1>1, CommitEnds
    <2>2. Basis(request[d])
        BY <2>1 DEF Undisturbed
    <2>3. Sent' = Sent
        BY DEF Sent, handoff
    <2>. QED BY <2>1, <2>2, <2>3 DEF Basis, Handoffs
<1>. QED BY <1>1 DEF Undisturbed

\* The basis of a transaction that commits while it is not stale.
LEMMA CommitBasis ==
    ASSUME Undisturbed, NEW c \in Connections, request[c].at = "checked", c \notin stale
    PROVE  Basis(request[c])
BY DEF Undisturbed, Running

\* A review that is not stale leaves a sent month settled.
LEMMA ReviewsKeep ==
    ASSUME TypeOK, Undisturbed, NEW c \in Connections \ stale,
           SaveWeek(c) \/ ReviewWeek(c) \/ ReviewReport(c)
    PROVE  Undisturbed'
<1>1. Basis(request[c]) /\ Commit(c) /\ UNCHANGED handoff
    BY CommitBasis DEF SaveWeek, ReviewWeek, ReviewReport, Is
<1>2. CASE SaveWeek(c)
    <2>1. ~ Sent
        BY <1>1, <1>2 DEF Basis, SaveWeek, Is
    <2>2. HandedOffSettled'
        BY <1>1, <2>1 DEF Undisturbed, HandedOffSettled, Sent, handoff
    <2>. QED BY <1>1, <2>1, <2>2, ReviewCommits
<1>3. CASE ReviewWeek(c)
    <2>1. Scope' = Scope
        BY <1>3 DEF ReviewWeek, Scope
    <2>2. ASSUME Sent, NEW w \in Scope PROVE week'[w] = "approved"
        <3>1. week[w] = "approved" /\ w \in Weeks
            BY <2>2 DEF Undisturbed, HandedOffSettled, Scope
        <3>2. CASE w = Of(c)
            <4>1. request[c].do = "approve"
                BY <1>1, <1>3, <2>2, <3>2 DEF Basis, ReviewWeek, Of
            <4>. QED BY <1>3, <3>1, <3>2, <4>1 DEF ReviewWeek, Outcome, TypeOK
        <3>3. CASE w # Of(c)
            BY <1>3, <3>1, <3>3 DEF ReviewWeek, TypeOK
        <3>. QED BY <3>2, <3>3
    <2>3. HandedOffSettled'
        BY <1>1, <1>3, <2>1, <2>2
        DEF Undisturbed, HandedOffSettled, Sent, ReviewWeek, handoff
    <2>. QED BY <1>1, <2>1, <2>3, ReviewCommits
<1>4. CASE ReviewReport(c)
    <2>1. Scope' = Scope
        BY <1>4 DEF ReviewReport, Scope
    <2>2. ASSUME Sent, NEW r \in Reports PROVE report'[r] = "approved"
        <3>1. report[r] = "approved"
            BY <2>2 DEF Undisturbed, HandedOffSettled
        <3>2. CASE r = Of(c)
            <4>1. request[c].do = "approve"
                BY <1>1, <1>4, <2>2, <3>2 DEF Basis, ReviewReport, Of
            <4>. QED BY <1>4, <3>1, <3>2, <4>1 DEF ReviewReport, Outcome, TypeOK
        <3>3. CASE r # Of(c)
            BY <1>4, <3>1, <3>3 DEF ReviewReport, TypeOK
        <3>. QED BY <3>2, <3>3
    <2>3. HandedOffSettled'
        BY <1>1, <1>4, <2>1, <2>2
        DEF Undisturbed, HandedOffSettled, Sent, ReviewReport, handoff
    <2>. QED BY <1>1, <2>1, <2>3, ReviewCommits
<1>. QED BY <1>2, <1>3, <1>4

\* A hand-off that is not stale leaves the month settled.
LEMMA HandOffsKeep ==
    ASSUME TypeOK, Undisturbed, NEW c \in Connections \ stale,
           SendToBilling(c) \/ ReopenPeriod(c) \/ CreateDraft(c)
    PROVE  Undisturbed'
<1>1. Basis(request[c]) /\ Commit(c) /\ request[c].do \in Handoffs
    BY CommitBasis DEF SendToBilling, ReopenPeriod, CreateDraft, Is, Handoffs
<1>2. CASE SendToBilling(c)
    <2>1. /\ \A w \in Scope : week[w] = "approved"
          /\ \A r \in Reports : report[r] = "approved"
          /\ ~ link
        BY <1>1, <1>2 DEF Basis, SendToBilling, Is, Undisturbed, HandedOffSettled
    <2>2. Scope' = Scope
        BY <1>2 DEF SendToBilling, Scope, reviewed
    <2>3. HandedOffSettled'
        BY <1>2, <2>1, <2>2 DEF HandedOffSettled, SendToBilling, reviewed
    <2>. QED BY <1>1, <2>3, HandOffCommits
<1>3. CASE ReopenPeriod(c)
    <2>1. request[c].row = period /\ ~ invoiced
        BY <1>1, <1>3 DEF Basis, ReopenPeriod, Is
    <2>2. ~ Sent' /\ ~ link'
        BY <1>3, <2>1 DEF ReopenPeriod, Sent, Undisturbed, HandedOffSettled
    <2>3. HandedOffSettled'
        BY <2>2 DEF HandedOffSettled
    <2>. QED BY <1>1, <2>3, HandOffCommits
<1>4. CASE CreateDraft(c)
    <2>1. request[c].lines = hours
        BY <1>1, <1>4 DEF Basis, CreateDraft, Is
    <2>2. HandedOffSettled'
        BY <1>4, <2>1
        DEF CreateDraft, Undisturbed, HandedOffSettled, Sent, Scope, reviewed
    <2>. QED BY <1>1, <2>2, HandOffCommits
<1>. QED BY <1>2, <1>3, <1>4

\* A transaction that is rolled back has written nothing.
LEMMA RollbackKeeps ==
    ASSUME TypeOK, Undisturbed, NEW c \in Connections, Rollback(c)
    PROVE  Undisturbed'
<1>1. ASSUME NEW d \in Running' \ stale' PROVE Basis(request[d])'
    <2>1. d \in Running \ stale /\ request'[d] = request[d]
        BY <1>1 DEF TypeOK, Rollback, Running, Idle
    <2>2. Basis(request[d])
        BY <2>1 DEF Undisturbed
    <2>. QED BY <2>1, <2>2 DEF Basis, Rollback, Sent, Scope, reviewed, handoff
<1>2. HandedOffSettled'
    BY SettledKept DEF Undisturbed, Rollback
<1>. QED BY <1>1, <1>2 DEF Undisturbed

\* Only a stale transaction's commit is ever recorded, and it stays recorded.
LEMMA OvertakenStays ==
    ASSUME TypeOK, [Next]_vars, overtaken
    PROVE  overtaken'
<1>1. ASSUME NEW c \in Connections, Review(c) \/ HandOff(c) PROVE overtaken'
    BY <1>1 DEF Review, HandOff, ReadWeek, ReadReport, ReadPeriod, SaveWeek, ReviewWeek,
                ReviewReport, ReadEntries, ReadReadiness, SendToBilling, ReadFreePeriod,
                ReopenPeriod, ReadEligibility, ReadExportRows, CreateDraft,
                Begin, Confirm, Commit, history
<1>2. ASSUME NEW c \in Connections, Rollback(c) PROVE overtaken'
    BY <1>2 DEF Rollback
<1>3. CASE UNCHANGED vars
    BY <1>3 DEF vars, history
<1>. QED BY <1>1, <1>2, <1>3 DEF Next

\* A step leaves the month settled or is the commit of a stale transaction.
LEMMA NextUndisturbed ==
    ASSUME TypeOK, Undisturbed, [Next]_vars
    PROVE  overtaken' \/ Undisturbed'
<1>1. ASSUME NEW c \in Connections, Review(c) PROVE overtaken' \/ Undisturbed'
    <2>1. CASE SaveWeek(c) \/ ReviewWeek(c) \/ ReviewReport(c)
        <3>1. c \in stale => overtaken'
            BY <2>1 DEF SaveWeek, ReviewWeek, ReviewReport, Commit
        <3>. QED BY <2>1, <3>1, ReviewsKeep
    <2>. QED BY <1>1, <2>1, ReviewReadsKeep DEF Review
<1>2. ASSUME NEW c \in Connections, HandOff(c) PROVE overtaken' \/ Undisturbed'
    <2>1. CASE SendToBilling(c) \/ ReopenPeriod(c) \/ CreateDraft(c)
        <3>1. c \in stale => overtaken'
            BY <2>1 DEF SendToBilling, ReopenPeriod, CreateDraft, Commit
        <3>. QED BY <2>1, <3>1, HandOffsKeep
    <2>. QED BY <1>2, <2>1, HandOffReadsKeep DEF HandOff
<1>3. CASE UNCHANGED vars
    <2>1. Running' = Running
        BY <1>3 DEF Running, vars
    <2>. QED BY <1>3, <2>1
         DEF Undisturbed, HandedOffSettled, Basis, Sent, Scope,
             vars, reviewed, handoff, history
<1>. QED BY <1>1, <1>2, <1>3, RollbackKeeps DEF Next

-----------------------------------------------------------------------------
(* A month none of whose commands has overtaken a hand-off, nor been overtaken by one, is  *)
(* settled: what was sent is approved, unchanged and locked, and what is invoiced was      *)
(* sent and is billed with its hours.                                                      *)
THEOREM OnlyOvertakenUnsettles == Spec => []UnsettledOvertaken
<1>1. Init => IInv
    BY InitTypes, InitUndisturbed DEF IInv
<1>2. IInv /\ [Next]_vars => IInv'
    BY NextTypes, OvertakenStays, NextUndisturbed DEF IInv
<1>3. IInv => UnsettledOvertaken
    BY DEF IInv, Undisturbed, UnsettledOvertaken
<1>. QED BY <1>1, <1>2, <1>3, PTL DEF Spec
=============================================================================
