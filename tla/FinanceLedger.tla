----------------------------- MODULE FinanceLedger -----------------------------
(***************************************************************************)
(* Invoices, payments and allocations of one tenant, and the usage limit   *)
(* that create_invoice is held to.  Nothing is locked when it is read: a   *)
(* request reads rows one after the other, decides, and its commit writes  *)
(* the values it computed over whatever the rows have become.  Two unique  *)
(* constraints (invoice number; payment and invoice of an allocation) are  *)
(* all that stops it.                                                      *)
(***************************************************************************)
EXTENDS Integers, FiniteSets, FiniteSetsExt, Sequences, SequencesExt

CONSTANTS Workers,
          Payments,
          Totals,       \* totals of invoices and amounts of payments
          Amounts,      \* amounts of allocations
          Limit,        \* limit_value of finance.invoices in the current period
          MaxInvoices,  \* bound: invoices of the tenant
          Billed,       \* bound: numbers of the invoices that later requests name
          Asked         \* bound: statuses that a PATCH may ask for

NoStatus == "as it is"  \* a PATCH that asks for no status

InvoiceStatuses ==
  {"draft", "issued", "sent", "partial", "paid", "overdue", "cancelled", "void"}

ASSUME LedgerAssumption ==
  /\ Totals \subseteq Nat \ {0} /\ Amounts \subseteq Nat \ {0}
  /\ Limit \in Nat /\ MaxInvoices \in Nat
  /\ Billed \subseteq 1 .. MaxInvoices /\ Asked \subseteq InvoiceStatuses
  /\ IsFiniteSet(Workers) /\ Workers # {} /\ IsFiniteSet(Payments)

VARIABLES invoices,  \* committed invoices; the index is the invoice number
          payments,  \* committed payments, absent ones included
          alloc,     \* committed allocations: amount by <<payment, invoice>>, 0 if none
          usage,     \* usage events of the period
          req        \* what the request of each worker has read and is about to write

vars == <<invoices, payments, alloc, usage, req>>

\* disturbed: a request has written the row over a change it had not read.
InvoiceRows == [status : InvoiceStatuses, total : Totals, paid : Nat, disturbed : BOOLEAN]

Absent == [status |-> "absent", amount |-> 0, allocated |-> 0, disturbed |-> FALSE]
PaymentRows ==
  [status : {"absent", "pending", "completed"}, amount : Totals \cup {0}, allocated : Nat,
   disturbed : BOOLEAN]

Idle == [pc |-> "idle"]

\* behind: rows the request has read that another request has changed since.
Rows == Payments \cup Billed
ItemsRead == [invoice : Billed, amount : Amounts, was : InvoiceStatuses, status : InvoiceStatuses,
              paid : Nat]
Requests ==
  {Idle}
  \cup [pc : {"within_limit"}]
  \cup [pc : {"numbered"}, number : Nat]
  \cup [pc : {"allocating"}, payment : Payments, allocated : Nat, items : Seq(Billed \X Amounts),
        read : Seq(ItemsRead), behind : SUBSET Rows]
  \cup [pc : {"updating"}, invoice : Billed, was : InvoiceStatuses, status : InvoiceStatuses,
        behind : SUBSET Rows]

TypeOK ==
  /\ invoices \in Seq(InvoiceRows) /\ Len(invoices) <= MaxInvoices
  /\ payments \in [Payments -> PaymentRows]
  /\ alloc \in [Payments \X Billed -> Nat]
  /\ usage \in Nat
  /\ req \in [Workers -> Requests]

Init ==
  /\ invoices = <<>>
  /\ payments = [p \in Payments |-> Absent]
  /\ alloc = [pair \in Payments \X Billed |-> 0]
  /\ usage = 0
  /\ req = [w \in Workers |-> Idle]

\* _refresh_overdue_status: a status that is still open turns overdue if the due date is past.
Refreshed(status, late, settled) ==
  IF late /\ ~settled /\ status \notin {"paid", "cancelled", "void", "draft"}
    THEN "overdue" ELSE status

Becomes(w, r) == req' = [req EXCEPT ![w] = r]

\* The request of w commits changes of rows: the others that have read them are behind.
Commits(w, rows) ==
  req' = [x \in Workers |->
            IF x = w THEN Idle
            ELSE CASE req[x].pc = "allocating" ->
                        [req[x] EXCEPT !.behind = @ \cup (rows \cap
                           ({req[x].payment} \cup {req[x].read[k].invoice : k \in DOMAIN req[x].read}))]
                   [] req[x].pc = "updating" ->
                        [req[x] EXCEPT !.behind = @ \cup (rows \cap {req[x].invoice})]
                   [] OTHER -> req[x]]

-----------------------------------------------------------------------------
(* create_invoice: the limit, then the number, then one transaction.       *)

\* assert_within_limit
CheckLimit(w) ==
  /\ req[w] = Idle /\ usage + 1 <= Limit
  /\ Becomes(w, [pc |-> "within_limit"])
  /\ UNCHANGED <<invoices, payments, alloc, usage>>

\* next_invoice_number: the number of invoices plus one.
TakeNumber(w) ==
  /\ req[w].pc = "within_limit" /\ Len(invoices) < MaxInvoices
  /\ Becomes(w, [pc |-> "numbered", number |-> Len(invoices) + 1])
  /\ UNCHANGED <<invoices, payments, alloc, usage>>

\* Mutant: the invoice is created and no usage event recorded.
CreateInvoice_Unmetered(w) ==
  \E total \in Totals, issue \in BOOLEAN, late \in BOOLEAN :
    /\ req[w].pc = "numbered" /\ req[w].number = Len(invoices) + 1
    /\ invoices' = Append(invoices,
         [status |-> IF issue THEN Refreshed("issued", late, FALSE) ELSE "draft",
          total |-> total, paid |-> 0, disturbed |-> FALSE])
    /\ Commits(w, {})
    /\ UNCHANGED <<payments, alloc, usage>>

\* The unique constraint on the number lets only the first holder of a number commit.
CreateInvoice(w) ==
  \E total \in Totals, issue \in BOOLEAN, late \in BOOLEAN :
    /\ req[w].pc = "numbered" /\ req[w].number = Len(invoices) + 1
    /\ invoices' = Append(invoices,
         [status |-> IF issue THEN Refreshed("issued", late, FALSE) ELSE "draft",
          total |-> total, paid |-> 0, disturbed |-> FALSE])
    /\ usage' = usage + 1
    /\ Commits(w, {})
    /\ UNCHANGED <<payments, alloc>>

-----------------------------------------------------------------------------
(* update_invoice, as far as it changes the status.  A PATCH of anything   *)
(* else changes it too if the due date is past.                            *)

\* _transition_status; refused for an invoice with payments that is to be cancelled.
Transition(row, status, late) ==
  IF status = "issued" /\ row.status = "draft"
    THEN Refreshed("issued", late, row.paid >= row.total)
    ELSE Refreshed(status, late, row.paid >= row.total)

ReadUpdate(w) ==
  \E i \in Billed \cap DOMAIN invoices, asked \in Asked \cup {NoStatus}, late \in BOOLEAN :
    /\ req[w] = Idle
    /\ asked \in {"cancelled", "void"} => invoices[i].paid = 0
    /\ LET status == IF asked = NoStatus THEN invoices[i].status ELSE asked
       IN  Becomes(w, [pc |-> "updating", invoice |-> i, was |-> invoices[i].status,
                       status |-> Transition(invoices[i], status, late), behind |-> {}])
    /\ UNCHANGED <<invoices, payments, alloc, usage>>

\* The status is in the UPDATE only when it differs from the one that was loaded.
UpdateInvoice(w) ==
  /\ req[w].pc = "updating"
  /\ LET r == req[w]
         changed == r.status # r.was
     IN /\ invoices' = IF changed
                         THEN [invoices EXCEPT ![r.invoice].status = r.status,
                                               ![r.invoice].disturbed = @ \/ r.behind # {}]
                         ELSE invoices
        /\ Commits(w, IF changed THEN {r.invoice} ELSE {})
  /\ UNCHANGED <<payments, alloc, usage>>

-----------------------------------------------------------------------------
(* Payments and their allocation.                                          *)

CreatePayment(w) ==
  \E p \in Payments, amount \in Totals, status \in {"pending", "completed"} :
    /\ req[w] = Idle /\ payments[p] = Absent
    /\ payments' = [payments EXCEPT ![p] = [Absent EXCEPT !.status = status, !.amount = amount]]
    /\ UNCHANGED <<invoices, alloc, usage, req>>

\* Requests to allocate a payment: one or two invoices.
Allocations ==
  {<<item>> : item \in Billed \X Amounts}
  \cup {items \in (Billed \X Amounts) \X (Billed \X Amounts) : items[1][1] # items[2][1]}

SumOf(items) == FoldLeft(LAMBDA sum, item : sum + item[2], 0, items)

\* Mutant: each item is compared with what is available, not their sum.
ReadPayment_EachItem(w) ==
  \E p \in Payments, items \in Allocations :
    /\ req[w] = Idle /\ payments[p].status = "completed"
    /\ \A k \in DOMAIN items : items[k][2] <= payments[p].amount - payments[p].allocated
    /\ Becomes(w, [pc |-> "allocating", payment |-> p, allocated |-> payments[p].allocated,
                   items |-> items, read |-> <<>>, behind |-> {}])
    /\ UNCHANGED <<invoices, payments, alloc, usage>>

ReadPayment(w) ==
  \E p \in Payments, items \in Allocations :
    /\ req[w] = Idle /\ payments[p].status = "completed"
    /\ SumOf(items) <= payments[p].amount - payments[p].allocated
    /\ Becomes(w, [pc |-> "allocating", payment |-> p, allocated |-> payments[p].allocated,
                   items |-> items, read |-> <<>>, behind |-> {}])
    /\ UNCHANGED <<invoices, payments, alloc, usage>>

\* _update_invoice_payment_status
Settled(row, paid, late) ==
  IF paid >= row.total THEN "paid" ELSE Refreshed("partial", late, FALSE)

\* One turn of the loop: the invoice is read, checked and its new values computed.
ReadInvoice(w) ==
  /\ req[w].pc = "allocating" /\ Len(req[w].read) < Len(req[w].items)
  /\ LET r == req[w]
         item == r.items[Len(r.read) + 1]
         i == item[1]
     IN /\ i \in DOMAIN invoices
        /\ invoices[i].status \notin {"draft", "cancelled", "void"}
        /\ item[2] <= invoices[i].total - invoices[i].paid
        /\ alloc[r.payment, i] = 0
        /\ \E late \in BOOLEAN :
             LET paid == invoices[i].paid + item[2] IN
               Becomes(w, [r EXCEPT !.read = Append(@,
                 [invoice |-> i, amount |-> item[2], was |-> invoices[i].status,
                  status |-> Settled(invoices[i], paid, late), paid |-> paid])])
  /\ UNCHANGED <<invoices, payments, alloc, usage>>

\* The unique constraint on payment and invoice lets only the first allocation commit.
AllocatePayment(w) ==
  /\ req[w].pc = "allocating" /\ Len(req[w].read) = Len(req[w].items)
  /\ LET r == req[w]
         p == r.payment
         touched == {r.read[k].invoice : k \in DOMAIN r.read}
         Item(i) == CHOOSE x \in ToSet(r.read) : x.invoice = i
     IN /\ \A i \in touched : alloc[p, i] = 0
        /\ alloc' = [pair \in DOMAIN alloc |->
                       IF pair[1] = p /\ pair[2] \in touched THEN Item(pair[2]).amount
                       ELSE alloc[pair]]
        /\ invoices' = [i \in DOMAIN invoices |->
             IF i \notin touched THEN invoices[i]
             ELSE [invoices[i] EXCEPT
                     !.paid = Item(i).paid,
                     !.status = IF Item(i).status # Item(i).was THEN Item(i).status ELSE @,
                     !.disturbed = @ \/ i \in r.behind]]
        /\ payments' = [payments EXCEPT ![p].allocated = r.allocated + SumOf(r.items),
                                        ![p].disturbed = @ \/ p \in r.behind]
        /\ Commits(w, {p} \cup touched)
  /\ UNCHANGED usage

\* A refused check, a violated constraint, a deadlock or a lost connection: rolled back.
Fail(w) ==
  /\ req[w] # Idle /\ Becomes(w, Idle)
  /\ UNCHANGED <<invoices, payments, alloc, usage>>

Next ==
  \E w \in Workers :
    \/ CheckLimit(w) \/ TakeNumber(w) \/ CreateInvoice(w)
    \/ ReadUpdate(w) \/ UpdateInvoice(w)
    \/ CreatePayment(w) \/ ReadPayment(w) \/ ReadInvoice(w) \/ AllocatePayment(w)
    \/ Fail(w)

Spec == Init /\ [][Next]_vars

-----------------------------------------------------------------------------
(* Correctness.                                                            *)

Spent(p) == MapThenSumSet(LAMBDA i : alloc[p, i], Billed)
Received(i) == MapThenSumSet(LAMBDA p : alloc[p, i], Payments)

\* allocate_payment keeps the books: a payment is the sum of its allocations and never
\* overspent, an invoice is paid what was allocated to it, never more than its total, and
\* a cancelled invoice is unpaid.  Only rows that overlapping requests wrote are excused.
LedgerBalanced ==
  /\ \A p \in Payments : ~payments[p].disturbed =>
       /\ payments[p].allocated = Spent(p)
       /\ Spent(p) <= payments[p].amount
  /\ \A i \in Billed \cap DOMAIN invoices : ~invoices[i].disturbed =>
       /\ invoices[i].paid = Received(i)
       /\ Received(i) <= invoices[i].total
       /\ invoices[i].status \in {"cancelled", "void"} => Received(i) = 0

\* assert_within_limit is not atomic with the insert that it guards, but the limit can be
\* passed by no more than the requests that had been checked before it was reached.
LimitOverrunBounded == Len(invoices) < Limit + Cardinality(Workers)
=============================================================================
