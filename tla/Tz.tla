-------------------------------- MODULE Tz ----------------------------------
(***************************************************************************)
(* How juksutil finds the rule of a time zone: it maps the zone's file     *)
(* (juksutil/src/mmap.c), skips the legacy half, looks up the transition   *)
(* in force and the next one by binary search (juksutil/src/tz.c), and     *)
(* puts them into the three words of a device's rule (sync_clock.c).       *)
(***************************************************************************)
EXTENDS ZoneRule

CONSTANTS
    Zones,   \* the tables that files hold
    Nows,    \* the times asked for, UNIX time
    Stray,   \* what is found where an offset would be, outside the table
    Unset    \* what the caller's variable holds before it is written

\* The second table of a file, of 64-bit times: transition k, at which the type
\* of local time type[k] comes into force, and the offset of each type.
IsZone(z) ==
    /\ z.timecnt \in Nat /\ z.typecnt \in 1 .. 255
    /\ z.transition \in [0 .. z.timecnt - 1 -> Int]
    /\ \A i, j \in 0 .. z.timecnt - 1 : i < j => z.transition[i] < z.transition[j]
    /\ z.type \in [0 .. z.timecnt - 1 -> 0 .. z.typecnt - 1]
    /\ z.info \in [0 .. z.typecnt - 1 -> -(WORD \div 2) .. WORD \div 2 - 1]

ASSUME TzAssumption ==
    /\ \A z \in Zones : IsZone(z) /\ \A k \in 0 .. z.timecnt - 1 : z.transition[k] < WORD
    /\ Nows \subseteq Nat
    /\ Stray \subseteq Int

\* What a path leads to: nothing, no regular file, a file without contents, one
\* of version 1 or cut short, one cut in its second table, or a whole one.
Kinds == {"missing", "special", "empty", "old", "cut", "whole"}

VARIABLES
    file, zone, now,  \* what is asked, and what there is to be found
    pc,
    data,             \* of the mapping: "none", "failed" or "mapped"
    closes,           \* calls of close() for the descriptor
    low, high,
    dest, result

asked == <<file, zone, now>>
vars == <<asked, pc, data, closes, low, high, dest, result>>

-----------------------------------------------------------------------------
\* The type in force from transition i on.  Without any transition, type[0] is
\* the first byte behind the empty table: the highest byte of info[0].
TypeAt(z, i) ==
    IF i < z.timecnt THEN z.type[i] ELSE IF z.info[0] < 0 THEN 255 ELSE 0

OffsetAt(z, i) ==
    IF TypeAt(z, i) < z.typecnt THEN {z.info[TypeAt(z, i)]} ELSE Stray

Init ==
    /\ file \in Kinds /\ zone \in Zones /\ now \in Nows
    /\ pc = "open" /\ data = "none" /\ closes = 0
    /\ low = 0 /\ high = 0 /\ dest = Unset /\ result = FALSE

\* mmap() refuses a length of zero, and what it returns then is not NULL.
mmap_open ==
    /\ pc = "open"
    /\ data' = CASE file \in {"missing", "special"} -> "none"
                 [] file = "empty" -> "failed"
                 [] OTHER -> "mapped"
    /\ closes' = IF file \in {"special", "empty"} THEN 1 ELSE 0
    /\ pc' = IF data' = "mapped" THEN "header" ELSE "close"
    /\ UNCHANGED <<asked, low, high, dest, result>>

\* Variant: a file of an old version is left mapped.
find_v2_header_Leak ==
    /\ pc = "header"
    /\ pc' = IF file = "old" THEN "done" ELSE "table"
    /\ UNCHANGED <<asked, data, closes, low, high, dest, result>>
find_v2_header ==
    /\ pc = "header"
    /\ pc' = IF file = "old" THEN "close" ELSE "table"
    /\ UNCHANGED <<asked, data, closes, low, high, dest, result>>

\* The caller takes a table that is cut for a success too.
check_table ==
    /\ pc = "table"
    /\ \/ /\ file = "cut"
          /\ pc' = "close" /\ result' = TRUE
          /\ UNCHANGED <<low, high>>
       \/ /\ file = "whole"
          /\ pc' = "search" /\ low' = 0 /\ high' = zone.timecnt
          /\ UNCHANGED result
    /\ UNCHANGED <<asked, data, closes, dest>>

\* Variant: the bounds of a search in a closed interval.
search_Closed ==
    /\ pc = "search" /\ low + 1 < high
    /\ LET mid == (high + low) \div 2
       IN  IF now < zone.transition[mid] THEN high' = mid + 1 /\ UNCHANGED low
           ELSE low' = mid /\ UNCHANGED high
    /\ UNCHANGED <<asked, pc, data, closes, dest, result>>
\* Variant: a transition is not in force yet in its first second.
search_Late ==
    /\ pc = "search" /\ low + 1 < high
    /\ LET mid == (high + low) \div 2
       IN  IF now <= zone.transition[mid] THEN high' = mid /\ UNCHANGED low
           ELSE low' = mid /\ UNCHANGED high
    /\ UNCHANGED <<asked, pc, data, closes, dest, result>>
search ==
    /\ pc = "search" /\ low + 1 < high
    /\ LET mid == (high + low) \div 2
       IN  IF now < zone.transition[mid] THEN high' = mid /\ UNCHANGED low
           ELSE low' = mid /\ UNCHANGED high
    /\ UNCHANGED <<asked, pc, data, closes, dest, result>>

\* Variant: the offset before and after are taken from one entry.
populate_Same ==
    /\ pc = "search" /\ low + 1 >= high
    /\ \E before \in OffsetAt(zone, low) :
          dest' = IF high = zone.timecnt
                  THEN [gmtoff_now |-> before, transition |-> 0, gmtoff_after |-> 0]
                  ELSE [gmtoff_now |-> before, transition |-> zone.transition[high],
                        gmtoff_after |-> before]
    /\ result' = TRUE /\ pc' = "close"
    /\ UNCHANGED <<asked, data, closes, low, high>>
populate ==
    /\ pc = "search" /\ low + 1 >= high
    /\ \E before \in OffsetAt(zone, low) :
          IF high = zone.timecnt \/ OffsetAt(zone, high) = {before}
          THEN dest' = [gmtoff_now |-> before, transition |-> 0, gmtoff_after |-> 0]
          ELSE \E after \in OffsetAt(zone, high) :
                  dest' = [gmtoff_now |-> before, transition |-> zone.transition[high],
                           gmtoff_after |-> after]
    /\ result' = TRUE /\ pc' = "close"
    /\ UNCHANGED <<asked, data, closes, low, high>>

\* Run by g_auto whenever tz_populate_tzinfo returns.
mmap_close ==
    /\ pc = "close" /\ pc' = "done"
    /\ closes' = IF data = "none" THEN closes ELSE closes + 1
    /\ UNCHANGED <<asked, data, low, high, dest, result>>

Next ==
    \/ mmap_open \/ find_v2_header \/ check_table \/ search \/ populate \/ mmap_close

Spec == Init /\ [][Next]_vars /\ WF_vars(Next)

-----------------------------------------------------------------------------
\* The words sent to the device.
RuleOf(d) ==
    [f \in Fields |-> CASE f = "zone_now" -> d.gmtoff_now % WORD
                        [] f = "ts_turn" -> d.transition % WORD
                        [] f = "zone_turn" -> d.gmtoff_after % WORD]

\* The offset a zone observes: that of the last transition, and before the
\* first one, or without any, that of its first type.
InForce(z, i, t) ==
    /\ z.transition[i] <= t
    /\ \A j \in 0 .. z.timecnt - 1 : z.transition[j] <= t => j <= i
Observes(z, t, offset) ==
    IF \E i \in 0 .. z.timecnt - 1 : z.transition[i] <= t
    THEN \E i \in 0 .. z.timecnt - 1 : InForce(z, i, t) /\ offset = z.info[z.type[i]]
    ELSE offset = z.info[0]

Found == pc = "done" /\ file = "whole"

\* The search looks at entries of the table only, and the two entries it ends
\* with are neighbours around the time asked for (tz.c:142-152).
SearchSound ==
    pc = "search" /\ zone.timecnt > 0 =>
        /\ 0 <= low /\ low < high /\ high <= zone.timecnt
        /\ low = 0 \/ zone.transition[low] <= now
        /\ high = zone.timecnt \/ now < zone.transition[high]

\* The rule the device gets means the zone's own offsets, from the time asked
\* for until the second transition after it: which is as far as one change can
\* reach.  It need not in a zone that starts later, or in one without
\* transitions west of Greenwich (tz.c:154-169, sync_clock.c:57-63).
Known(z, t) ==
    IF z.timecnt > 0 THEN z.transition[0] <= t ELSE z.info[0] >= 0
OneChange(z, s, t) ==
    \A i, j \in 0 .. z.timecnt - 1 :
        s < z.transition[i] /\ i < j => t < z.transition[j]
RuleRight ==
    Found /\ Known(zone, now) =>
        /\ result
        /\ \A t \in now .. WORD - 1 :
              OneChange(zone, now, t) => Observes(zone, t, Ref(RuleOf(dest), t))

\* A file that was opened is closed exactly once, on every path, before the
\* answer is used (mmap.c:71-92).  Nothing is claimed of an empty file: its
\* descriptor is closed twice.
FileClosed ==
    pc = "done" /\ file # "empty" => closes = IF file = "missing" THEN 0 ELSE 1

\* The look-up comes to an end, whatever the table (tz.c:143-152).
Ends == <>(pc = "done")

\* The offset shown is that observed now (juksutil/README.md:37).
OffsetShown == Found /\ result => Observes(zone, now, dest.gmtoff_now)
=============================================================================
