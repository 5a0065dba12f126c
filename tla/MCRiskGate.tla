----------------------------- MODULE MCRiskGate -----------------------------
(***************************************************************************)
(* RiskGate for TLC: settings with and without a margin requirement, a      *)
(* healthy report and one over the loss limit, entries with and without a   *)
(* symbol, and a command that is no entry.                                  *)
(***************************************************************************)
EXTENDS RiskGate, TLC

CONSTANTS Gold, Euro   \* symbols

Symbols == {Gold, Euro}

Strict == [allowed |-> {Gold}, blocked |-> {}, minimumLot |-> 1, maximumLot |-> 10,
           maximumRisk |-> 2, maximumPositions |-> 2, maximumPerSymbol |-> 1,
           maximumLoss |-> Null, maximumLossPercent |-> 5, maximumDrawdown |-> 10,
           minimumFreeMargin |-> 100, minimumMarginLevel |-> 150, maximumSpread |-> Null,
           requireStop |-> TRUE, minimumRewardRisk |-> 2]

Loose == [Strict EXCEPT !.allowed = {}, !.blocked = {Euro}, !.maximumPositions = 1,
                        !.minimumMarginLevel = 0, !.maximumLoss = 50, !.maximumSpread = 20]

Settings == {Strict, Loose}

Buy == [type |-> "OPEN_BUY", symbol |-> Gold, direction |-> "BUY", lot |-> 1, risk |-> 1,
        entry |-> 20, stop |-> 15, target |-> 30]

BuyChart == [Buy EXCEPT !.symbol = NoSymbol, !.entry = 0]

CloseAll == [Buy EXCEPT !.type = "CLOSE_ALL_POSITIONS"]

Requests == {Buy, BuyChart, CloseAll}

Healthy == [status |-> "ONLINE", auto |-> TRUE, terminal |-> TRUE, broker |-> TRUE,
            balance |-> 1000, loss |-> 0, drawdown |-> 0, freeMargin |-> 1000,
            marginUsed |-> 500, session |-> TRUE, news |-> FALSE, spreadPassed |-> TRUE,
            spread |-> 10]

Losing == [Healthy EXCEPT !.loss = 60, !.drawdown = 6, !.auto = FALSE]

Reports == {Healthy, Losing}

Interchangeable == Permutations(Call)
=============================================================================
