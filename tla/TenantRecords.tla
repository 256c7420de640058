---------------------------- MODULE TenantRecords -----------------------------
(***************************************************************************)
(* The records a tenant has one of, and its invoices: org_service.py       *)
(* (organisations by slug), admin_service.py (flags and settings by        *)
(* organisation and key) and billing_service.py (the subscription of an    *)
(* organisation, invoices numbered one after the other, payments).         *)
(*                                                                         *)
(* Every write looks for its row first and inserts or updates it later.    *)
(* The slug of an organisation and the key of its flag or setting are      *)
(* under a unique constraint; a flag or setting of no organisation (the    *)
(* NULL in its key is never equal to another), a subscription and the      *)
(* number of an invoice are not.                                           *)
(*                                                                         *)
(* Deleting an organisation takes its subscription, invoices and payments  *)
(* with it (db/base.py: ondelete="CASCADE").  The organisation that comes  *)
(* and goes here is another one than that whose records these are.         *)
(***************************************************************************)
EXTENDS Integers, FiniteSets

CONSTANTS
    Requests,  \* requests; each runs one operation, and names the row it inserts
    None,      \* no row
    Missing    \* no value

ASSUME RequestsFinite == IsFiniteSet(Requests)
ASSUME NoneAssumption == None \notin Requests
ASSUME MissingAssumption == Missing \notin BOOLEAN

Keys == {"organization", "flag", "global", "subscription"}
Unique == {"organization", "flag"}
Upserted == Keys \ {"organization"}
Values == BOOLEAN

VARIABLES
    rows,        \* the committed rows: key, row, value
    invoices,    \* the committed invoices of one organisation
    payments,    \* the committed payments: who paid which invoice
    req,         \* the requests
    overlapped   \* history: two requests have been in flight at once

vars == <<rows, invoices, payments, req, overlapped>>

Row == [key : Keys, id : Requests, val : Values]
Invoice == [id : Requests, number : 1 .. Cardinality(Requests), paid : BOOLEAN]
Payment == [id : Requests, invoice : Requests]

Ops == {"put", "create", "remove", "invoice", "pay"}
\* A request: what it writes, and the row it found with the value it read.
Request ==
    [op : Ops, pc : {"write", "commit"}, key : Keys, val : Values,
     id : Requests \cup {None}, seen : Values, number : 0 .. Cardinality(Requests)]
Idle == [pc |-> "idle"]
Answer(a) == [pc |-> a]

TypeOK ==
    /\ rows \subseteq Row /\ invoices \subseteq Invoice /\ payments \subseteq Payment
    /\ req \in [Requests -> Request \cup {Idle, Answer("done"), Answer("refused")}]
    /\ overlapped \in BOOLEAN

Init ==
    /\ rows = {} /\ invoices = {} /\ payments = {}
    /\ req = [r \in Requests |-> Idle]
    /\ overlapped = FALSE

-------------------------------------------------------------------------------
(* Steps of a request.                                                     *)

InFlight(r) == req[r].pc \in {"write", "commit"}
RowsOf(k) == {row \in rows : row.key = k}

\* A request reads, and goes on or is answered.
Load(r, q) ==
    /\ req[r] = Idle
    /\ req' = [req EXCEPT ![r] = q]
    /\ overlapped' = (overlapped \/ \E p \in Requests : InFlight(p))
    /\ UNCHANGED <<rows, invoices, payments>>

Plan(op, k, v, id, seen, n) ==
    [op |-> op, pc |-> "write", key |-> k, val |-> v, id |-> id, seen |-> seen, number |-> n]

\* A plausible bug: the row is never looked for.
FoundNone(op, k, v) == {Plan(op, k, v, None, FALSE, 0)}

\* The write of a row that is there; scalar_one_or_none raises when several
\* are (no plan is made then).
Found(op, k, v) ==
    IF RowsOf(k) = {} THEN {Plan(op, k, v, None, FALSE, 0)}
    ELSE IF Cardinality(RowsOf(k)) > 1 THEN {}
    ELSE {Plan(op, k, v, row.id, row.val, 0) : row \in RowsOf(k)}

\* set_flag, set_setting, upsert_subscription, update_org.
LoadPut(r) == \E k \in Keys, v \in Values :
    LET plans == Found("put", k, v) IN
    IF plans = {} \/ (k \notin Upserted /\ RowsOf(k) = {})
      THEN Load(r, Answer("refused"))
      ELSE \E q \in plans : Load(r, q)

\* create_org refuses a slug it finds.
LoadCreate(r) == \E v \in Values :
    IF RowsOf("organization") # {} THEN Load(r, Answer("refused"))
    ELSE Load(r, Plan("create", "organization", v, None, FALSE, 0))

LoadRemove(r) ==
    IF RowsOf("organization") = {} THEN Load(r, Answer("refused"))
    ELSE \E q \in Found("remove", "organization", FALSE) : Load(r, q)

\* create_invoice counts the invoices it sees.
LoadInvoice(r) ==
    Load(r, Plan("invoice", "subscription", FALSE, None, FALSE, Cardinality(invoices) + 1))

\* pay_invoice pays an invoice whatever its status.
LoadPay(r) == \E i \in invoices :
    Load(r, Plan("pay", "subscription", FALSE, i.id, FALSE, 0))

\* A write of a row: the session names only columns that have changed.
Changes(q) ==
    q.op \in {"put", "create", "remove"} /\ (q.id = None \/ q.op = "remove" \/ q.val # q.seen)

SameInvoice(p, q) == p.op = "pay" /\ q.op = "pay" /\ p.id = q.id
SameRecord(p, q) ==
    /\ Changes(p) /\ Changes(q) /\ p.key = q.key
    /\ q.key \in Unique \/ (q.id # None /\ p.id = q.id)

\* The flushed writes that a write of r's row or unique key waits for.
Blockers(r) ==
    {p \in Requests \ {r} :
        req[p].pc = "commit" /\ (SameInvoice(req[p], req[r]) \/ SameRecord(req[p], req[r]))}

\* The row inserted in between, or removed in between.
Conflicting(q) ==
    LET ids == {row.id : row \in RowsOf(q.key)} IN
    Changes(q) /\ IF q.id = None THEN q.key \in Unique /\ ids # {}
                  ELSE q.op = "put" /\ q.id \notin ids

\* A plausible bug: nothing is unique.
WriteUnchecked(r) ==
    /\ req[r].pc = "write"
    /\ req' = [req EXCEPT ![r].pc = "commit"]
    /\ UNCHANGED <<rows, invoices, payments, overlapped>>

\* The flush.
Write(r) ==
    /\ req[r].pc = "write"
    /\ Blockers(r) = {} /\ ~ Conflicting(req[r])
    /\ req' = [req EXCEPT ![r].pc = "commit"]
    /\ UNCHANGED <<rows, invoices, payments, overlapped>>

\* The transaction ends without a commit.
Abort(r) ==
    /\ InFlight(r)
    /\ req' = [req EXCEPT ![r] = Answer("refused")]
    /\ UNCHANGED <<rows, invoices, payments, overlapped>>

\* A unique violation, or an UPDATE that meets no row.
Conflict(r) ==
    /\ req[r].pc = "write" /\ Blockers(r) = {} /\ Conflicting(req[r])
    /\ Abort(r)

\* The rows after request r.
RowsAfter(q, r) ==
    LET gone == {row \in rows : row.key = q.key /\ row.id = q.id} IN
    IF ~ Changes(q) THEN rows
    ELSE IF q.op = "remove" THEN rows \ gone
    ELSE (rows \ gone) \cup
           {[key |-> q.key, id |-> IF q.id = None THEN r ELSE q.id, val |-> q.val]}

\* The invoices after request r.
InvoicesAfter(q, r) ==
    CASE q.op = "invoice" ->
           invoices \cup {[id |-> r, number |-> q.number, paid |-> FALSE]}
      [] q.op = "pay" -> {IF i.id = q.id THEN [i EXCEPT !.paid = TRUE] ELSE i : i \in invoices}
      [] OTHER -> invoices

Commit(r) ==
    LET q == req[r] IN
    /\ q.pc = "commit"
    /\ rows' = RowsAfter(q, r)
    /\ invoices' = InvoicesAfter(q, r)
    /\ payments' = IF q.op = "pay" THEN payments \cup {[id |-> r, invoice |-> q.id]} ELSE payments
    /\ req' = [req EXCEPT ![r] = Answer("done")]
    /\ UNCHANGED overlapped

Next == \E r \in Requests :
    \/ LoadPut(r) \/ LoadCreate(r) \/ LoadRemove(r) \/ LoadInvoice(r) \/ LoadPay(r)
    \/ Write(r) \/ Conflict(r) \/ Commit(r) \/ Abort(r)

Spec == Init /\ [][Next]_vars

-------------------------------------------------------------------------------
(* Properties.                                                             *)

\* What a reader is shown for a key: its value, none, or an error.
Shown(k) ==
    IF Cardinality(RowsOf(k)) > 1 THEN None
    ELSE IF RowsOf(k) = {} THEN Missing
    ELSE (CHOOSE row \in RowsOf(k) : TRUE).val

Told(r) == IF req[r].pc \in {"done", "refused"} THEN req[r].pc ELSE "none"

Store == INSTANCE TenantStore WITH
    Keys <- Unique, Upserted <- Upserted \cap Unique,
    store <- [k \in Unique |-> Shown(k)], answer <- [r \in Requests |-> Told(r)]

\* The keys under a unique constraint are a store: one value each, changed
\* once by a request that is told "done" and never by one that is refused,
\* whatever the others do meanwhile.
UniqueKeysAreAStore == Store!StoreSpec

\* An invoice is paid exactly when a payment of it was taken.
PaidIsPaidFor ==
    \A i \in invoices : i.paid <=> \E p \in payments : p.invoice = i.id

NumbersCount == {i.number : i \in invoices} = 1 .. Cardinality(invoices)

\* As long as requests come one at a time, no key has two rows, constraint or
\* not, and the invoices are numbered without a gap or a repetition.
SerialRecords ==
    overlapped \/ (NumbersCount /\ \A k \in Keys : Cardinality(RowsOf(k)) <= 1)

\* The payments in every interleaving, the rest one at a time.
RecordsInOrder == PaidIsPaidFor /\ SerialRecords

-------------------------------------------------------------------------------
(* What a reader may expect, and the code does not keep.                   *)

\* billing_service.py:41 and admin_service.py:41 read the row of a key as if
\* there were one.
KeysHaveOneRow == \A k \in Keys : Cardinality(RowsOf(k)) <= 1

\* Invoices have numbers of their own.
NumbersDistinct == \A i, j \in invoices : i.number = j.number => i = j

\* An invoice is paid once.
PaidOnce == \A p, q \in payments : p.invoice = q.invoice => p = q
===============================================================================
