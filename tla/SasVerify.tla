----------------------------- MODULE SasVerify -----------------------------
(***************************************************************************)
(* Interactive verification of a device by short strings: the polling loop  *)
(* that `verify`, `verify-wait` and the chat's /verify run                  *)
(* (src/e2ee_commands.cpp, src/cmd_tui_commands.cpp).  A run looks at its   *)
(* transaction twice a second, asks for the emojis to be compared, and      *)
(* stores the device once the transaction is done.  The chat runs           *)
(* verifications as threads that share two flags for the answer and one     *)
(* sync loop.                                                               *)
(*                                                                         *)
(* Transactions are kept by progressive-core, whose verification manager    *)
(* is not in the repository: here it takes the other side's messages while  *)
(* the sync loop runs, ends a transaction after both MACs, and drops none   *)
(* while its emojis are compared.                                           *)
(***************************************************************************)
EXTENDS Naturals, Sequences, FiniteSets

CONSTANT Txns       \* the transactions, one for each device

SasAssumption == IsFiniteSet(Txns)

Ways == {"chat", "verify", "verify-wait"}

VARIABLES
    way,        \* how the runs of the process were started
    syncing,    \* the sync loop runs
    txn,        \* the verification manager's transactions
    offered,    \* those the other side began, in order
    sas,        \* the runs, by their transaction
    waiting,    \* verify-wait, before it has taken a transaction
    sasConfirm, sasCancel,      \* the chat's answer
    verified,   \* saveVerifiedDevice
    said,       \* what the user said to each run under way that it had not taken yet
    stops       \* runs that have ended

flags == <<sasConfirm, sasCancel>>
sasVars == <<way, syncing, txn, offered, sas, waiting, sasConfirm, sasCancel, verified, said, stops>>

TxnStates == {"none", "requested", "key", "mac", "done", "cancelled", "gone"}
Closed == {"done", "cancelled", "gone"}
Places == {"none", "loop", "confirm", "leaving", "ended"}

TypeOK ==
    /\ way \in Ways /\ {syncing, waiting, sasConfirm, sasCancel} \subseteq BOOLEAN
    /\ \A t \in Txns : txn[t].state \in TxnStates /\ txn[t].told \subseteq {"m.user", "m.timeout"}
    /\ offered \in Seq(Txns) /\ verified \subseteq Txns /\ stops \in Nat
    /\ sas \in [Txns -> [at : Places, confirmed : BOOLEAN, rc : {0, 1}]]
    /\ said \in [Txns -> SUBSET {"yes", "no"}]

Init ==
    /\ way \in Ways /\ syncing = (way = "verify-wait") /\ waiting = (way = "verify-wait")
    /\ txn = [t \in Txns |-> [state |-> "none", old |-> FALSE, ours |-> FALSE, told |-> {}]]
    /\ offered = <<>>
    /\ sas = [t \in Txns |-> [at |-> "none", confirmed |-> FALSE, rc |-> 1]]
    /\ sasConfirm = FALSE /\ sasCancel = FALSE
    /\ verified = {} /\ said = [t \in Txns |-> {}] /\ stops = 0

-----------------------------------------------------------------------------
(* The verification manager and the other side. *)

NoRunChanges == UNCHANGED <<way, syncing, sas, waiting, flags, verified, said, stops>>

\* A request comes in; the server may deliver one again that is too old.
Incoming(t) ==
    /\ syncing /\ way = "verify-wait" /\ txn[t].state = "none"
    /\ \E old \in BOOLEAN : txn' = [txn EXCEPT ![t].state = "requested", ![t].old = old]
    /\ offered' = Append(offered, t)
    /\ NoRunChanges

\* The key, the MAC and the done of the other side.
PeerSteps(t) ==
    /\ syncing
    /\ \/ txn[t].state = "requested" /\ txn' = [txn EXCEPT ![t].state = "key"]
       \/ txn[t].state = "key" /\ txn' = [txn EXCEPT ![t].state = "mac"]
       \/ txn[t].state = "mac" /\ txn[t].ours /\ txn' = [txn EXCEPT ![t].state = "done"]
    /\ NoRunChanges /\ UNCHANGED offered

PeerCancels(t) ==
    /\ syncing /\ txn[t].state \in {"requested", "key", "mac"}
    /\ \E end \in {"cancelled"} \cup (IF sas[t].at = "confirm" THEN {} ELSE {"gone"}) :
           txn' = [txn EXCEPT ![t].state = end]
    /\ NoRunChanges /\ UNCHANGED offered

Matched(m, t) == [m EXCEPT ![t].ours = @ \/ m[t].state \notin Closed]

Cancelled(m, t, code) ==
    [m EXCEPT ![t].told = @ \cup {code},
              ![t].state = IF m[t].state \in Closed THEN @ ELSE "cancelled"]

-----------------------------------------------------------------------------
(* The beginning of a run. *)

\* Seeded fault: the sync loop is left to whoever started it before.
StartsUnsynced(t) ==
    /\ sas' = [sas EXCEPT ![t].at = "loop"]
    /\ txn' = [txn EXCEPT ![t].state = "requested"] /\ UNCHANGED <<syncing, stops>>

\* Without the crypto identity nothing is begun; a transaction may not start.
Starts(t) ==
    \/ /\ sas' = [sas EXCEPT ![t].at = "loop"] /\ syncing' = TRUE
       /\ txn' = [txn EXCEPT ![t].state = "requested"] /\ UNCHANGED stops
    \/ sas' = [sas EXCEPT ![t].at = "ended"] /\ UNCHANGED <<syncing, txn, stops>>
    \/ sas' = [sas EXCEPT ![t].at = "ended"] /\ syncing' = FALSE /\ stops' = stops + 1 /\ UNCHANGED txn

Running == { t \in Txns : sas[t].at \in {"loop", "confirm"} }
Undecided == { t \in Running : ~ sas[t].confirmed }

\* `verify`: the one verification of its process.
Verify(t) ==
    /\ way = "verify" /\ \A u \in Txns : sas[u].at = "none"
    /\ Starts(t)
    /\ UNCHANGED <<way, offered, waiting, flags, verified, said>>

\* Seeded fault: the flags keep the last answer.
SlashVerifyKeeps(t) ==
    /\ way = "chat" /\ sas[t].at = "none" /\ Starts(t)
    /\ UNCHANGED <<way, offered, waiting, flags, verified, said>>

\* /verify resets the flags, for those already running too.
SlashVerify(t) ==
    /\ way = "chat" /\ sas[t].at = "none" /\ Starts(t)
    /\ sasConfirm' = FALSE /\ sasCancel' = FALSE
    /\ said' = [u \in Txns |-> IF u \in Undecided THEN {} ELSE said[u]]
    /\ UNCHANGED <<way, offered, waiting, verified>>

Hear(word) == said' = [u \in Txns |-> IF u \in Undecided THEN said[u] \cup {word} ELSE said[u]]

\* /verify-confirm and /verify-cancel, at any time.
SlashConfirm ==
    /\ way = "chat" /\ sasConfirm' = TRUE /\ Hear("yes")
    /\ UNCHANGED <<way, syncing, txn, offered, sas, waiting, sasCancel, verified, stops>>

SlashCancel ==
    /\ way = "chat" /\ sasCancel' = TRUE /\ Hear("no")
    /\ UNCHANGED <<way, syncing, txn, offered, sas, waiting, sasConfirm, verified, stops>>

\* The newest request that is neither over nor ten minutes old.
Takes(i) ==
    LET Fresh(t) == txn[t].state \notin Closed /\ ~ txn[t].old IN
    Fresh(offered[i]) /\ \A j \in (i + 1)..Len(offered) : ~ Fresh(offered[j])

\* `verify-wait` accepts the one request it takes and follows it from then on.
Take ==
    /\ waiting
    /\ \E i \in 1..Len(offered) : Takes(i) /\ sas' = [sas EXCEPT ![offered[i]].at = "loop"]
    /\ waiting' = FALSE
    /\ UNCHANGED <<way, syncing, txn, offered, flags, verified, said, stops>>

\* Its time is up, or it is interrupted, before it has taken one.
WaitedInVain ==
    /\ waiting /\ waiting' = FALSE /\ syncing' = FALSE /\ stops' = stops + 1
    /\ UNCHANGED <<way, txn, offered, sas, flags, verified, said>>

-----------------------------------------------------------------------------
(* A pass through the loop. *)

\* The transaction is over, or the time, or Ctrl+C was pressed.
Leave(t) ==
    /\ sas[t].at = "loop" /\ sas' = [sas EXCEPT ![t].at = "leaving"]
    /\ UNCHANGED <<way, syncing, txn, offered, waiting, flags, verified, said, stops>>

\* The emojis are there: --confirm says yes, else they are shown and the run asks.
Compare(t) ==
    /\ sas[t].at = "loop" /\ txn[t].state \in {"key", "mac"} /\ ~ sas[t].confirmed
    /\ \/ /\ sas' = [sas EXCEPT ![t].at = "confirm"] /\ UNCHANGED <<txn, said>>
       \/ /\ way # "chat"
          /\ sas' = [sas EXCEPT ![t].confirmed = TRUE] /\ txn' = Matched(txn, t)
          /\ said' = [said EXCEPT ![t] = @ \cup {"yes"}]
    /\ UNCHANGED <<way, syncing, offered, waiting, flags, verified, stops>>

Accept(t) ==
    /\ txn' = Matched(txn, t)
    /\ sas' = [sas EXCEPT ![t].confirmed = TRUE, ![t].at = "loop"]

Decline(t) ==
    /\ txn' = Cancelled(txn, t, "m.user")
    /\ sas' = [sas EXCEPT ![t].at = "leaving"]

\* The terminal's answer.
Answered(t) ==
    /\ way # "chat" /\ sas[t].at = "confirm"
    /\ \/ Accept(t) /\ said' = [said EXCEPT ![t] = @ \cup {"yes"}]
       \/ Decline(t) /\ said' = [said EXCEPT ![t] = @ \cup {"no"}]
    /\ UNCHANGED <<way, syncing, offered, waiting, flags, verified, stops>>

\* Seeded fault: the confirmation is looked at before the cancellation.
AnswerYesFirst(t) ==
    /\ way = "chat" /\ sas[t].at = "confirm"
    /\ \/ sasConfirm /\ Accept(t)
       \/ ~ sasConfirm /\ Decline(t)
    /\ UNCHANGED <<way, syncing, offered, waiting, flags, verified, said, stops>>

\* The chat's: the cancellation counts first, and two minutes without either are a no.
Answer(t) ==
    /\ way = "chat" /\ sas[t].at = "confirm"
    /\ \/ ~ sasCancel /\ sasConfirm /\ Accept(t)
       \/ (sasCancel \/ ~ sasConfirm) /\ Decline(t)
    /\ UNCHANGED <<way, syncing, offered, waiting, flags, verified, said, stops>>

Store(t) ==
    /\ sas[t].at = "loop" /\ txn[t].state = "done"
    /\ verified' = verified \cup {t}
    /\ sas' = [sas EXCEPT ![t].rc = 0, ![t].at = "leaving"]
    /\ UNCHANGED <<way, syncing, txn, offered, waiting, flags, said, stops>>

\* Seeded fault: the end of a run cancels nothing.
EndSilently(t) ==
    /\ sas[t].at = "leaving" /\ sas' = [sas EXCEPT ![t].at = "ended"]
    /\ syncing' = FALSE /\ stops' = stops + 1
    /\ UNCHANGED <<way, txn, offered, waiting, flags, verified, said>>

\* A run that was not confirmed cancels - once more, if it already had; the sync loop stops.
End(t) ==
    /\ sas[t].at = "leaving" /\ sas' = [sas EXCEPT ![t].at = "ended"]
    /\ \/ /\ sas[t].rc # 0 /\ ~ sas[t].confirmed
          /\ \E code \in {"m.user", "m.timeout"} : txn' = Cancelled(txn, t, code)
       \/ (sas[t].rc = 0 \/ sas[t].confirmed) /\ UNCHANGED txn
    /\ syncing' = FALSE /\ stops' = stops + 1
    /\ UNCHANGED <<way, offered, waiting, flags, verified, said>>

-----------------------------------------------------------------------------
Next ==
    \/ Take \/ WaitedInVain \/ SlashConfirm \/ SlashCancel
    \/ \E t \in Txns :
           \/ Incoming(t) \/ PeerSteps(t) \/ PeerCancels(t)
           \/ Verify(t) \/ SlashVerify(t)
           \/ Leave(t) \/ Compare(t) \/ Answered(t) \/ Answer(t) \/ Store(t) \/ End(t)

-----------------------------------------------------------------------------
\* A device is stored as verified only if the user said yes, and not no, while its own
\* verification waited for the answer - but for what a later /verify made the chat forget.
\* What was said of an earlier verification counts for none.
VerifiedAsConfirmed == \A t \in verified : said[t] = {"yes"} /\ sas[t].confirmed

\* A run that is over and was not confirmed leaves no transaction behind: the other side has
\* ended it or was told.
GivenUpIsTold ==
    \A t \in Txns :
        sas[t].at = "ended" /\ ~ sas[t].confirmed => txn[t].state \in {"none"} \cup Closed

\* While a run waits, the sync loop brings it the other side's messages - but in the chat,
\* where the end of another verification stops it for all.
SyncServesRuns == Running # {} /\ ~ syncing => way = "chat" /\ stops > 0
=============================================================================
