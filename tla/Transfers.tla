------------------------------ MODULE Transfers ------------------------------
(***************************************************************************)
(* Requests fanned out over workers that execute them on one idempotent    *)
(* processor: FanOut with Processor's operations as its function.  Two     *)
(* requests may have one id (a retry, or a mistake of the client) and may  *)
(* be executed in any order.                                               *)
(***************************************************************************)
EXTENDS Integers, Sequences, SequencesExt, FiniteSetsExt

CONSTANTS
  Workers, Txns, Accounts,
  Amounts,      \* the amounts deposited and transferred
  InputCount    \* bound: the number of requests

Request ==
  [op : {"transfer"}, txn : Txns, from : Accounts, to : Accounts, amount : Amounts]
    \cup [op : {"deposit"}, txn : Txns, to : Accounts, amount : Amounts]

VARIABLES
  next, at, item, out, closed, reading,   \* FanOut's
  results, balances, result,              \* Processor's
  batch,      \* the requests, in the order of the input channel
  answer,     \* history: what the processor returned for each
  executed    \* history: the requests that took effect, in order

fanVars == <<next, at, item, out, closed, reading>>
processorVars == <<results, balances, result>>
vars == <<fanVars, processorVars, batch, answer, executed>>

Fan == INSTANCE FanOut
P == INSTANCE Processor

Init ==
  /\ Fan!Init
  /\ P!Init
  /\ batch \in [1..InputCount -> Request]
  /\ answer = [i \in 1..InputCount |-> "none"]
  /\ executed = <<>>

\* A worker executes the request it has taken.
Execute(w) ==
  LET i == item[w]
      r == batch[i]
  IN  /\ Fan!Apply(w)
      /\ \/ r.op = "transfer" /\ P!Transfer(r.txn, r.from, r.to, r.amount)
         \/ r.op = "deposit" /\ P!Deposit(r.txn, r.to, r.amount)
      /\ answer' = [answer EXCEPT ![i] = result']
      /\ executed' = IF UNCHANGED <<results, balances>> THEN executed
                     ELSE Append(executed, i)
      /\ UNCHANGED batch

\* The other steps of the workers and of the goroutine that closes the output.
Move ==
  /\ \/ \E w \in Workers : Fan!Take(w) \/ Fan!Send(w) \/ Fan!Done(w)
     \/ Fan!CloseOut
  /\ UNCHANGED <<processorVars, batch, answer, executed>>

Stop ==
  /\ Fan!StopReading
  /\ UNCHANGED <<processorVars, batch, answer, executed>>

Step == Move \/ \E w \in Workers : Execute(w)

Next == Step \/ Stop

Spec == Init /\ [][Next]_vars

\* Some goroutine that can run does; each makes finitely many steps, so none
\* is left behind.
FairSpec == Spec /\ WF_vars(Step)

----------------------------------------------------------------------------
(* Properties.                                                             *)

\* A closed output has given every result once and nobody sends on it (see
\* FanOut): the closing goroutine waits for every worker.
ClosedIsComplete == Fan!ClosedIsComplete

\* No two requests with one id take effect, and everyone who is told of a
\* success under an id is told the same: "each transaction ID is executed at
\* most once", whichever worker comes first, transfers and deposits alike.
ExecutedOnce ==
  /\ \A m, n \in 1..Len(executed) :
       m # n => batch[executed[m]].txn # batch[executed[n]].txn
  /\ \A i, j \in 1..InputCount :
       ( /\ batch[i].txn = batch[j].txn
         /\ {answer[i], answer[j]} \cap {"none", "insufficient"} = {} )
         => answer[i] = answer[j]

\* What came to account a, or left it, by request r.
In(a, r) == IF r.to = a THEN r.amount ELSE 0
Out(a, r) == IF r.op = "transfer" /\ r.from = a THEN r.amount ELSE 0

\* What each of the requests e of batch b changed of account a, and all of them.
Changes(a, b, e) == [n \in 1..Len(e) |-> In(a, b[e[n]]) - Out(a, b[e[n]])]
Total(f, S) == MapThenSumSet(LAMBDA n : f[n], S)

\* An account holds what the executed requests brought less what they took,
\* after each of them, and is never overdrawn.
BalancesExact ==
  \A a \in Accounts :
    /\ balances[a] = Total(Changes(a, batch, executed), 1..Len(executed))
    /\ balances[a] >= 0

\* A consumer that reads on gets to the end: every worker is done and the
\* output is closed.
OutputCloses == <>(closed \/ ~reading)

=============================================================================
