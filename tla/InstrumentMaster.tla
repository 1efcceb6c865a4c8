-------------------------- MODULE InstrumentMaster --------------------------
(***************************************************************************)
(* The local mirror of the broker's instrument masters                     *)
(* (integration/fyers/instrument_master.py), the tickers it is keyed by    *)
(* (integration/fyers/symbols.py) and the answers the terminal computes    *)
(* from it (terminal/api/symbols_router.py, intelligence_router.py).       *)
(*                                                                         *)
(* Days are numbered from the first of a month, and months have one        *)
(* length; a ticker keeps a month and, in the weekly form, a day of it.    *)
(* Strikes, option types and exchanges select rows by equality; one of     *)
(* each stands for all.                                                    *)
(*                                                                         *)
(* The terminal runs in the exchange's time zone.  Its routers take the    *)
(* local date; the mirror takes the date in UTC, which after midnight is   *)
(* still the day before, until the offset of the zone has passed.          *)
(***************************************************************************)
EXTENDS Integers, FiniteSets, FiniteSetsExt

CONSTANTS
  Underlyings,  \* names with derivatives
  Indices,      \* INDEX_SYMBOLS
  WeeklyDays,   \* [Underlyings -> weekdays of the policy's weekly expiries]
  ExpiryDays,   \* [Underlyings -> days on which the exchange lets contracts expire]
  MonthDays,    \* days of a month
  Horizon,      \* days for which the exchange lists contracts ahead
  DayParts,     \* units of time that make a day
  UtcLag,       \* units after midnight in which the date in UTC is the day before
  MaxAge,       \* max_age_hours, in units
  LotSizes,
  MaxNow,       \* bound: units that pass
  MaxStarts     \* bound: starts of the terminal

ASSUME MasterAssumption ==
  /\ MonthDays \in Nat /\ MonthDays >= 7 /\ MonthDays % 7 = 0
  /\ \A u \in Underlyings : ExpiryDays[u] \subseteq Nat
  /\ DayParts \in Nat \ {0} /\ UtcLag \in Nat
  /\ Horizon \in Nat /\ MaxAge \in Nat /\ MaxNow \in Nat /\ MaxStarts \in Nat

VARIABLES
  now,        \* units since day 0
  lotSize,    \* what the exchange prescribes
  mirror,     \* fyers_instruments: [tickers -> rows]
  refreshed,  \* last_refreshed, or Never
  starts,     \* starts of the terminal so far
  published,  \* history: what was downloaded at the time of last_refreshed
  missed      \* history: the masters that could not be downloaded then

masterVars == <<now, lotSize, mirror, refreshed, starts, published, missed>>

Never == -1
NoDay == -1
Masters == {"NSE_CM", "NSE_FO"}

\* date.today(), and datetime.now(UTC).date().
Today == now \div DayParts
UtcToday == IF now % DayParts < UtcLag THEN Today - 1 ELSE Today

-----------------------------------------------------------------------------
\* Tickers.  A contract is [under, kind, expiry].

MonthOf(day) == day \div MonthDays
Weekday(day) == day % 7

\* The last occurrence of its weekday in the month.
IsMonthlyExpiry(day) == MonthOf(day + 7) # MonthOf(day)

IsDerivative(c) == c.kind \in {"FUTURES", "OPTION"}

\* form is the is_monthly argument: "monthly", "weekly", or "none" to let the
\* date decide.
ToFyers(c, form) ==
  LET monthly == IF form = "none" THEN IsMonthlyExpiry(c.expiry) ELSE form = "monthly"
  IN [under |-> c.under, kind |-> c.kind,
      month |-> IF IsDerivative(c) THEN MonthOf(c.expiry) ELSE NoDay,
      day |-> IF IsDerivative(c) /\ ~monthly THEN c.expiry % MonthDays ELSE NoDay]

\* The monthly form leaves the day open: it is read as the first.
FromFyers(t) ==
  [under |-> t.under, kind |-> t.kind,
   expiry |-> IF t.kind \notin {"FUTURES", "OPTION"} THEN NoDay
              ELSE t.month * MonthDays + (IF t.day = NoDay THEN 0 ELSE t.day)]

FormOf(t) == IF t.kind \notin {"FUTURES", "OPTION"} THEN "none"
             ELSE IF t.day = NoDay THEN "monthly" ELSE "weekly"

-----------------------------------------------------------------------------
\* The exchange, as far as its masters show it.

SpotKind(u) == IF u \in Indices THEN "INDEX" ELSE "EQUITY"

Spots == {[under |-> u, kind |-> SpotKind(u), expiry |-> NoDay] : u \in Underlyings}

\* Options expire on all expiry days, futures on the monthly ones.
Derivatives(day) ==
  {c \in [under : Underlyings, kind : {"OPTION", "FUTURES"}, expiry : day .. day + Horizon] :
     c.expiry \in ExpiryDays[c.under] /\ (c.kind = "FUTURES" => IsMonthlyExpiry(c.expiry))}

Listed == [m \in Masters |-> IF m = "NSE_CM" THEN Spots ELSE Derivatives(Today)]

\* _upsert_row: the ticker's row, with the expiry and the lot size it tells.
RowOf(c) == [under |-> c.under, kind |-> c.kind, expiry |-> c.expiry, lot |-> lotSize]

Download(reached) ==
  LET contracts == UNION {Listed[m] : m \in reached}
  IN [t \in {ToFyers(c, "none") : c \in contracts} |->
        RowOf(CHOOSE c \in contracts : ToFyers(c, "none") = t)]

-----------------------------------------------------------------------------
\* The mirror.

MasterInit ==
  /\ now = 0 /\ lotSize \in LotSizes
  /\ mirror \in {<<>>, Download(Masters)}   \* one of a release without timestamps
  /\ refreshed = Never /\ starts = 0
  /\ published = <<>> /\ missed = {}

\* A mirror with rows but no timestamp counts as stale.
NeedsRefresh == mirror = <<>> \/ refreshed = Never \/ now - refreshed > MaxAge

\* Rows are inserted or overwritten, and none is ever deleted.
UpsertMaster(rows) ==
  [t \in DOMAIN mirror \cup DOMAIN rows |-> IF t \in DOMAIN rows THEN rows[t] ELSE mirror[t]]

\* Faulty variant: the time is recorded whatever was downloaded.
RefreshStamped(reached) ==
  LET rows == Download(reached)
  IN /\ mirror' = UpsertMaster(rows)
     /\ refreshed' = now /\ published' = rows /\ missed' = Masters \ reached

\* The time of a refresh is recorded if it got any row at all.
Refresh(reached) ==
  LET rows == Download(reached)
  IN /\ mirror' = UpsertMaster(rows)
     /\ IF rows = <<>> THEN UNCHANGED <<refreshed, published, missed>>
        ELSE refreshed' = now /\ published' = rows /\ missed' = Masters \ reached

\* init_instrument_master() at a start: ensure_fresh().
StartMaster(reached) ==
  /\ starts < MaxStarts /\ starts' = starts + 1
  /\ IF NeedsRefresh THEN Refresh(reached)
     ELSE UNCHANGED <<mirror, refreshed, published, missed>>
  /\ UNCHANGED <<now, lotSize>>

TimePasses ==
  /\ now < MaxNow /\ now' = now + 1
  /\ UNCHANGED <<lotSize, mirror, refreshed, starts, published, missed>>

LotSizeChanges ==
  /\ lotSize' \in LotSizes \ {lotSize}
  /\ UNCHANGED <<now, mirror, refreshed, starts, published, missed>>

MasterNext ==
  \/ \E reached \in SUBSET Masters : StartMaster(reached)
  \/ TimePasses \/ LotSizeChanges

MasterSpec == MasterInit /\ [][MasterNext]_masterVars

-----------------------------------------------------------------------------
\* Answers computed from the mirror.

Search(u, kinds) == {mirror[t] : t \in {t \in DOMAIN mirror : t.under = u /\ t.kind \in kinds}}

\* An index row is preferred, then whatever the exchange has of the name.
LotSizeOf(u) ==
  LET preferred == Search(u, {"INDEX"})
      found == IF preferred # {} THEN preferred ELSE Search(u, {"EQUITY", "FUTURES", "OPTION"})
  IN {row.lot : row \in found}

\* classify_expiry: the policy's last Thursday is monthly, its weekdays are
\* weekly, and the rest goes by the date.
ClassifyExpiry(u, day) ==
  IF Weekday(day) = 3 /\ IsMonthlyExpiry(day) THEN "monthly"
  ELSE IF Weekday(day) \in WeeklyDays[u] THEN "weekly"
  ELSE IF IsMonthlyExpiry(day) THEN "monthly" ELSE "weekly"

\* By how many days a fresh mirror may be behind.
Aged == (MaxAge + DayParts - 1) \div DayParts

\* The exchange's calendar: an underlying has one monthly expiry a month, and
\* contracts are listed so far ahead that those listed last are never the next
\* ones of their form and class.
ASSUME CalendarAssumption ==
  \A u \in Underlyings :
    /\ \A d, e \in ExpiryDays[u] :
         IsMonthlyExpiry(d) /\ IsMonthlyExpiry(e) /\ MonthOf(d) = MonthOf(e) => d = e
    /\ \A day \in 0 .. MaxNow \div DayParts :
         LET listed == {d \in ExpiryDays[u] : day <= d /\ d <= day + Horizon}
             early == {d \in listed : d <= day + Horizon - Aged}
         IN /\ early # {}
            /\ \A e \in listed : \E d \in early :
                 /\ d <= e
                 /\ IsMonthlyExpiry(d) <=> IsMonthlyExpiry(e)
                 /\ ClassifyExpiry(u, d) = ClassifyExpiry(u, e)

MinOrNone(days) == IF days = {} THEN NoDay ELSE Min(days)

Unexpired(days, today) == {d \in days : d >= today}

\* The nearest weekly expiry of an index, the nearest monthly one of a stock,
\* else the nearest of all.
ResolveDefaultExpiry(u, expiries) ==
  LET wanted == IF u \in Indices THEN "weekly" ELSE "monthly"
      preferred == {e \in expiries : ClassifyExpiry(u, e) = wanted}
  IN MinOrNone(IF preferred # {} THEN preferred ELSE expiries)

\* GET /resolve for an option: the nearest weekly contract, else the nearest,
\* else the latest that has expired.
ResolveSymbol(expiries) ==
  LET live == Unexpired(expiries, Today)
      weekly == {e \in live : ~IsMonthlyExpiry(e)}
  IN IF live # {} THEN MinOrNone(IF weekly # {} THEN weekly ELSE live)
     ELSE IF expiries # {} THEN Max(expiries) ELSE NoDay

Expiries(rows) == {row.expiry : row \in rows}

\* list_expiries, whose first is not necessarily the default: by the date in UTC.
ListExpiries(u) == Unexpired(Expiries(Search(u, {"OPTION"})), UtcToday)

\* A watchlist entry for futures: the nearest that has not expired.
ResolveFuture(rows) == MinOrNone(Unexpired(Expiries(rows), Today))

-----------------------------------------------------------------------------
MasterTypeOK ==
  /\ now \in 0 .. MaxNow /\ lotSize \in LotSizes /\ starts \in 0 .. MaxStarts
  /\ refreshed \in {Never} \cup 0 .. MaxNow /\ missed \subseteq Masters
  /\ DOMAIN published \subseteq DOMAIN mirror
  /\ \A t \in DOMAIN mirror : t = ToFyers(mirror[t], "none") /\ mirror[t].lot \in LotSizes

\* symbols.py:25: "To make from_fyers/to_fyers exact inverses".  A ticker that was
\* parsed is encoded again as it was, in the form that it had.
RoundTrip(t) == ToFyers(FromFyers(t), FormOf(t)) = t

\* A default expiry picked for u in place of the one that is due: none but, until
\* the date in UTC has changed too, the expiry of the day that ended at midnight.
StillListed(u, picked) == UtcToday < Today /\ picked = UtcToday /\ picked \in ExpiryDays[u]

\* instrument_master.py:243: "A total failure must NOT reset the clock".  While
\* the mirror counts as fresh some master was downloaded, at most a day ago, and
\* rows are those of that download.  If the derivatives were among them, every
\* expiry that the terminal picks is the one it would pick from what the
\* exchange lists today, but for the default expiry in the hours after the
\* midnight of an expiry day, which may still be that day.  And every ticker of
\* the mirror can be parsed and encoded.
FreshMirrorAnswers ==
  /\ \A t \in DOMAIN mirror : RoundTrip(t)
  /\ ~NeedsRefresh =>
       /\ missed # Masters
       /\ \A t \in DOMAIN published : mirror[t] = published[t]
       /\ \A u \in Underlyings : LotSizeOf(u) # {}
       /\ "NSE_FO" \notin missed =>
            \A u \in Underlyings :
              LET listed(kind) == {c \in Listed["NSE_FO"] : c.under = u /\ c.kind = kind}
                  options == Expiries(listed("OPTION"))
                  picked == ResolveDefaultExpiry(u, ListExpiries(u))
              IN /\ picked = ResolveDefaultExpiry(u, options) \/ StillListed(u, picked)
                 /\ ResolveSymbol(Expiries(Search(u, {"OPTION"}))) = ResolveSymbol(options)
                 /\ ResolveFuture(Search(u, {"FUTURES"})) = ResolveFuture(listed("FUTURES"))
=============================================================================
