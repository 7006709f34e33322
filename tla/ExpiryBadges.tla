---------------------------- MODULE ExpiryBadges ----------------------------
(***************************************************************************)
(* How urgent the expiry monitor says a subscription is (daysUntil and     *)
(* Urgency of pages/subscriptions/ExpiryMonitor.jsx of the super-admin     *)
(* console).  `new Date(isoDate)' is midnight UTC of the expiry date, the  *)
(* browser's today begins at local midnight, and the difference of the two *)
(* is rounded to days.  Time is in hours; `clock' is one browser and one   *)
(* row, over the hours that pass.                                          *)
(***************************************************************************)
EXTENDS Integers

CONSTANTS Zones,      \* hours that browsers are ahead of UTC
          Expiries,   \* expiry dates, as days
          LastHour    \* bound of the hours that pass

VARIABLE clock        \* the hour, the zone, and the row's expiry date and status

BadgesInit ==
    clock \in [hour: {24}, zone: Zones, expiry: Expiries, swept: {FALSE}]

Today == (clock.hour + clock.zone) \div 24
LocalMidnight == 24 * Today - clock.zone

\* Mutation of daysUntil: the time of day counts.
FromNow(row) == (2 * (24 * row.expiry - row.hour) + 24) \div 48

\* Math.round of the difference in days
daysUntil(row) == (2 * (24 * row.expiry - LocalMidnight) + 24) \div 48

Urgency(row) ==
    LET days == daysUntil(row)
    IN  CASE row.swept \/ days < 0 -> "expired"
          [] ~row.swept /\ days \in 0..3 -> "destructive"
          [] ~row.swept /\ days \in 4..7 -> "outline"
          [] ~row.swept /\ days > 7 -> "secondary"

HourPasses == clock.hour < LastHour /\ clock' = [clock EXCEPT !.hour = @ + 1]

\* The daily sweep, at some hour of a UTC day after the expiry date.
Sweep ==
    /\ ~clock.swept /\ clock.hour \div 24 > clock.expiry
    /\ clock' = [clock EXCEPT !.swept = TRUE]

BadgesNext == HourPasses \/ Sweep

\* A browser twelve hours or more ahead of UTC, whose midnight is nearer to that of
\* UTC on the day before, counts a day too many.
DaysGiven(zone) == IF zone >= 12 THEN 1 ELSE 0

\* ExpiryMonitor.jsx:28: a subscription that has lapsed and was not swept yet reads as
\* expired, instead of a negative number of days: from the day after its expiry date
\* on the browser's calendar, at whatever hour, but a day later than that, after a day
\* of "0 days left", where a day is given.
DaysLeftAreCalendarDays ==
    LET left == clock.expiry - Today + DaysGiven(clock.zone)
    IN  /\ daysUntil(clock) = left
        /\ Urgency(clock) = "expired" <=> clock.swept \/ left < 0
=============================================================================
