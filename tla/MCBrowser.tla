----------------------------- MODULE MCBrowser ------------------------------
(***************************************************************************)
(* Small instances of the components of Browser for TLC.                   *)
(***************************************************************************)
EXTENDS Browser

(* Session: two people share the browser; the first may create an account   *)
(* and has a broker to link.                                                *)

CONSTANTS u1, u2, a1, a2, n1, b1, d1, d2

MCPrimary == [u \in Users |-> IF u = u1 THEN a1 ELSE a2]
MCExtra   == [u \in Users |-> IF u = u1 THEN {n1} ELSE {}]
MCBroker  == [u \in {u1} |-> b1]
MCDemo    == [u \in Users |-> IF u = u1 THEN d1 ELSE d2]

-----------------------------------------------------------------------------
(* TradeDesk: a symbol with spot trading and one without, a real account    *)
(* without money and a demo account with some.                              *)

CONSTANTS sx, fx

MCDeskSymbols  == {sx, fx}
MCWithSpot     == {sx}
MCDeskAccounts == {a1, d1}
MCDeskReal     == {a1}

-----------------------------------------------------------------------------
(* DemoEngine: a symbol that falls, one that rises; CFDs on both, an option *)
(* of two ticks and one of one.                                             *)

CONSTANTS boom

Order(k, s, d, n, t) ==
    [kind |-> k, symbol |-> s, side |-> d, size |-> n, tp |-> 0, sl |-> 0, ticks |-> t]

MCDemoSymbols  == {fx, boom}
MCDemoMids     == [s \in MCDemoSymbols |-> IF s = fx THEN {10, 7} ELSE {10, 13}]
MCDemoSpread   == [s \in MCDemoSymbols |-> 1]
MCDemoLeverage == [s \in MCDemoSymbols |-> IF s = fx THEN 10 ELSE 5]
MCDemoOrders   ==
    { Order("cfd", fx, "buy", 10, 0), Order("cfd", boom, "sell", 5, 0),
      Order("binary", boom, "buy", 20, 2), Order("binary", fx, "sell", 20, 1) }

-----------------------------------------------------------------------------
(* MarketView: a symbol with candles of every resolution and one with none  *)
(* of M1.                                                                   *)

MCResolutions == {"LIVE", "M1", "H1"}
MCWithCandles == {<<sx, "M1">>, <<sx, "H1">>, <<fx, "H1">>}

-----------------------------------------------------------------------------

\* Only the view, when it is in focus, starts in any of its states; its two
\* accounts are alike.
MCInit == BrowserInit /\ chartAcct = a1 /\ (focus # "view" => chartSymbol = sx)

MCSpec == MCInit /\ [][BrowserNext]_allVars

SessionSpec      == MCInit /\ focus = "session" /\ [][BrowserNext]_allVars
ProvisioningSpec == MCInit /\ focus = "provisioning" /\ [][BrowserNext]_allVars
=============================================================================
