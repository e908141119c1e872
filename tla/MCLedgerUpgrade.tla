--------------------------- MODULE MCLedgerUpgrade ---------------------------
(***************************************************************************)
(* A small instance of LedgerUpgrade for TLC: the ledgers of the releases  *)
(* before this one, with one run or two in them.                           *)
(***************************************************************************)
EXTENDS LedgerUpgrade

CONSTANTS r1, r2

(* A row of the synchronous path.                                          *)
Sync == [NoRow EXCEPT !.response = "original"]

(* Durable rows before result_payload, in each stage of a run.             *)
Queued == [NoRow EXCEPT !.durable = TRUE, !.status = "queued"]
Staged == [Queued EXCEPT !.status = "running", !.response = "original"]
Failed == [Staged EXCEPT !.status = "failed", !.malfunction = TRUE]
Unpublished == {Queued, Staged, Failed}
Unreadable == {[x EXCEPT !.readable = FALSE] : x \in {Staged, Failed}}
Published == {[Staged EXCEPT !.status = "completed"], [Staged EXCEPT !.pending = TRUE]}

WithPayload(x) == [x EXCEPT !.payload = x.response]
WithEvent(x, e, s) == [x EXCEPT !.url = TRUE, !.event = e, !.settled = s]

(* With a callback: before callback_state, and with it.                    *)
Completed == WithPayload([Staged EXCEPT !.status = "completed"])
Called ==
  {WithEvent(Staged, "NULL", "no"), WithEvent(Failed, "NULL", "no"),
   WithEvent(Completed, "NULL", "delivered"),
   WithEvent(Completed, "NULL", "configuration_failed"),
   WithEvent(Queued, "waiting", "no"), WithEvent(Failed, "delivered", "delivered")}

Ledger(old, new, cols, place, r, x, conf) ==
  [oldTable |-> old, newTable |-> new, columns |-> cols,
   where |-> [q \in Runs |-> IF q = r THEN place ELSE "nowhere"],
   row |-> [q \in Runs |-> IF q = r THEN x ELSE NoRow],
   sink |-> [q \in Runs |-> IF q = r /\ conf /\ x.durable /\ x.status = "completed"
                              THEN "original" ELSE "none"],
   configured |-> conf]

(* Four releases, the first two of which used the old name.                *)
First == {Ledger(TRUE, FALSE, {"match"}, "old", r1, x, TRUE) :
            x \in {Sync, [Sync EXCEPT !.malfunction = TRUE]}}
Durable == {Ledger(TRUE, FALSE, {"match", "status"}, "old", r1, x, TRUE) :
              x \in Unpublished \union Published \union Unreadable}
WithCallbacks == {Ledger(FALSE, TRUE, {"status", "payload", "callback_url"},
                         "new", r1, x, TRUE) :
                    x \in {y \in Called : y.event = "NULL"}}
Current == {Ledger(FALSE, TRUE, LifecycleColumns, "new", r1, x, TRUE) :
              x \in {[Sync EXCEPT !.status = "completed"]}
                      \union {y \in Called : y.event # "NULL"}
                      \union {WithPayload(y) : y \in Published}}

(* Without a result sink; with nothing yet; with a stale table of the old  *)
(* name beside the new one; with two runs.                                 *)
Others ==
  {Ledger(FALSE, TRUE, {"status"}, "new", r1, x, FALSE) : x \in {Sync, Staged}}
    \union {Ledger(FALSE, FALSE, {}, "nowhere", r1, NoRow, TRUE),
            Ledger(TRUE, TRUE, {"status"}, "old", r1, Staged, TRUE)}
    \union {[Ledger(TRUE, FALSE, {"status", "payload"}, "old", r1, x, TRUE) EXCEPT
               !.where[r2] = "old", !.row[r2] = Staged] :
              x \in {Completed, [Completed EXCEPT !.payload = "none"],
                     [Staged EXCEPT !.readable = FALSE]}}

MCLedgers == First \union Durable \union WithCallbacks \union Current \union Others
=============================================================================
