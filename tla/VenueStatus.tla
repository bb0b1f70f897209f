---------------------------- MODULE VenueStatus ----------------------------
(***************************************************************************)
(* The order statuses of the PMS: what the adapters of each venue make of   *)
(* the exchange's own order state, and which statuses the persistence       *)
(* layer, the monitors and the scanner single out.  Statuses are compared   *)
(* as the strings they are, so their spelling matters.                     *)
(***************************************************************************)

AllVenues == {"binance", "deribit", "hyperliquid"}

(***************************************************************************)
(* What the venue's adapters make of an exchange order state, over the     *)
(* WebSocket (WsStatus) and over GetOrder (RestStatuses).                  *)
(***************************************************************************)
OpenStates == {"open", "partial"}
EndStates == {"filled", "short", "cancelled", "rejected"}

\* An order cut short was cancelled after a part of it had been filled.
HasFills(s) == s \in {"filled", "short"}
Incomplete(s) == s \in {"short", "cancelled", "rejected"}

\* Mutant: a partial fill taken for a fill.
BinanceStatusEager(s) ==
    CASE s = "open" -> "NEW"
      [] s \in {"partial", "filled"} -> "FILLED"
      [] s \in {"short", "cancelled"} -> "CANCELED"
      [] s = "rejected" -> "EXPIRED"

BinanceStatus(s) ==
    CASE s = "open" -> "NEW"
      [] s = "partial" -> "PARTIALLY_FILLED"
      [] s = "filled" -> "FILLED"
      [] s \in {"short", "cancelled"} -> "CANCELED"
      [] s = "rejected" -> "EXPIRED"

DeribitStatus(s) ==
    CASE s \in OpenStates -> "NEW"
      [] s = "filled" -> "FILLED"
      [] s \in {"short", "cancelled"} -> "CANCELLED"
      [] s = "rejected" -> "FAILED"

HyperliquidWsStatus(s) ==
    CASE s \in OpenStates -> "NEW"
      [] s = "filled" -> "FILLED"
      [] s \in {"short", "cancelled"} -> "CANCELED"
      [] s = "rejected" -> "rejected"

HyperliquidRestStatus(s) ==
    CASE s \in OpenStates -> "NEW"
      [] s = "filled" -> "FILLED"
      [] s \in {"short", "cancelled"} -> "CANCELLED"
      [] s = "rejected" -> "FAILED"

WsStatus(v, s) == CASE v = "binance" -> BinanceStatus(s)
                    [] v = "deribit" -> DeribitStatus(s)
                    [] v = "hyperliquid" -> HyperliquidWsStatus(s)

\* Hyperliquid's GetOrder takes an order that the venue does not find any more
\* for filled when there are fills of it.
RestStatuses(v, s) ==
    CASE v = "binance" -> {BinanceStatus(s)}
      [] v = "deribit" -> {DeribitStatus(s)}
      [] v = "hyperliquid" ->
           {HyperliquidRestStatus(s)} \cup (IF s = "short" THEN {"FILLED"} ELSE {})

\* Only the Binance monitor drops an update that repeats the stored status.
DropsSameStatus(v) == v = "binance"

\* isTerminalOrderStatus of the persistence layer.
Terminal(status) == status \in {"FILLED", "CANCELLED", "cancelled", "failed"}

\* Mutant: only Hyperliquid's spelling of a live order.
ScannableOpenOnly == {"open"}

\* The statuses the scanner asks the exchange about.
Scannable == {"NEW", "open"}

\* Mutant: the American spelling.
ScanFailureOneL(status) == status \in {"CANCELED", "FAILED"}

\* strings.EqualFold(status, "cancelled") or "failed" in the scanner.
ScanFailure(status) == status \in {"CANCELLED", "FAILED"}

Statuses == {"NEW", "PARTIALLY_FILLED", "FILLED", "CANCELED", "CANCELLED",
             "EXPIRED", "FAILED", "rejected"}
=============================================================================
