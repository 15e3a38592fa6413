------------------------------- MODULE RawDp ---------------------------------
(***************************************************************************)
(* The 0xAA frames of the raw data points: TuyaHandleStandardFunction      *)
(* takes a setting out of the phone's request, puts it to the robot and,   *)
(* when the robot answers, reports it back in a frame of its own           *)
(* (TuyaReport*, To*Data).                                                 *)
(*                                                                         *)
(* A frame is 0xAA 0x00 length command body checksum, all bytes. A setting *)
(* is a header (field name -> value) and a sequence of items (field name   *)
(* -> value). Three tables say where each field lies: the phone's when it  *)
(* sends, the handler's offsets when it takes the setting, the order of    *)
(* the push_back calls when it reports.                                    *)
(* The robot is given metres: a coordinate is scaled by the resolution of  *)
(* the last map on the way in, divided by it and rounded on the way out.   *)
(* The LCM thread sets that resolution with every map, without a lock, so  *)
(* it may change between two points of one request. Lengths are integers,  *)
(* in a unit in which a resolution is even.                                *)
(*                                                                         *)
(* The phone and the robot are external. asked and scale are history       *)
(* variables: no guard reads them.                                         *)
(***************************************************************************)
EXTENDS Integers, Sequences, FiniteSets, SequencesExt

CONSTANTS Settings,    \* kind -> the settings the phone may send
          NoSetting,   \* no setting
          Resolutions, \* resolutions of the robot's maps; 0: before the first
          Arrivals,    \* the maps that may come in while one request is read:
                       \* each with the body's byte at which it does
          ByZero,      \* sign -> what the build makes of a length over 0
          MaxSets,     \* bound: requests
          MaxMaps      \* bound: maps

Kinds == {"wall", "area", "areaNamed", "areaTyped", "zone", "zoneNamed", "room",
          "spot", "spot1", "order", "alert", "dnd", "dnd1", "props", "names"}

\* Requests without a setting: the report says how it went.
Commands == {"split", "merge", "restore", "mapping", "reset"}

ASSUME RawAssumption ==
    /\ DOMAIN Settings = Kinds
    /\ Resolutions \subseteq {2 * n : n \in 0..1000} /\ Resolutions \ {0} # {}
    /\ Arrivals \subseteq Seq([cut : Nat, res : Resolutions]) /\ <<>> \in Arrivals
    /\ \A ms \in Arrivals : \A i, j \in DOMAIN ms : i < j => ms[i].cut <= ms[j].cut
    /\ ByZero \in [{-1, 0, 1} -> Int]
    /\ MaxSets \in Nat /\ MaxMaps \in Nat

VARIABLES waits,    \* what the handler waits for
          kind,     \* the kind of setting, or the command
          taken,    \* the setting the handler took from the request, in metres
          held,     \* what the robot says it cleans: spot, rooms (external)
          res,      \* _mapResolution
          frame,    \* the report the request led to, or <<>>
          asked,    \* history: the setting the phone meant
          scale,    \* history: the resolutions while the setting was taken
          count     \* what the bounds bound

rawVars == <<waits, kind, taken, held, res, frame, asked, scale, count>>

----------------------------------------------------------------------------
(* Bytes.                                                                   *)

Bytes == 0..255
Byte(n) == n % 256

\* tonb16: two's complement, high byte first; nbto16 takes the sign back.
tonb16(d) == <<(d \div 256) % 256, d % 256>>
nbto16(b) == LET u == 256 * b[1] + b[2] IN IF u < 32768 THEN u ELSE u - 65536

\* _mapResolution when byte p of a request is read and the maps ms come in
\* meanwhile, in their order.
ResAt(ms, p) ==
    LET n == Cardinality({j \in DOMAIN ms : ms[j].cut <= p})
    IN  IF n = 0 THEN res ELSE ms[n].res
InForce(ms) == {res} \cup {ms[j].res : j \in DOMAIN ms}

\* Converting an infinite quotient, or 0/0, to int is left to the build.
OverZero(m) == ByZero[IF m > 0 THEN 1 ELSE IF m < 0 THEN -1 ELSE 0]

\* Mutant: a conversion to int instead of std::round.
ToTuyaCut(m) ==
    IF res = 0 THEN OverZero(m) ELSE IF m >= 0 THEN m \div res ELSE -(-m \div res)

\* TuyaXYToMars, and MarsXToTuya with its std::round (half away from zero).
ToMars(ms, p, x) == x * ResAt(ms, p)
ToTuya(m) ==
    IF res = 0 THEN OverZero(m)
    ELSE IF m >= 0 THEN (m + res \div 2) \div res
    ELSE -((-m + res \div 2) \div res)

\* The sum of a vector, each value times its number of places.
SumBytes(s) ==
    Byte(MapThenSumSet(LAMBDA v : v * Cardinality({n \in DOMAIN s : s[n] = v}),
                       Range(s)))

\* raw[2] = raw.size() - 3: a byte, the command and the body.
LengthByte(body) == Byte(Len(body) + 1)

\* The sum over everything from the command on.
Checksum(cmd, body) == SumBytes(<<cmd>> \o body)

Frame(cmd, body) ==
    <<170, 0, LengthByte(body), cmd>> \o body \o <<Checksum(cmd, body)>>

----------------------------------------------------------------------------
(* Fields. Coordinates and times are words, everything else is one byte,    *)
(* except polygons, lists of rooms and names.                               *)

Coordinates == {"x", "y", "x0", "y0", "x1", "y1"}
Words == Coordinates \cup {"time", "start", "end"}
NameField == 19

Pad(name) == [k \in 1..NameField |-> IF k <= Len(name) THEN name[k] ELSE 0]

\* A field as the handler expects it in a request.
RequestField(f, v) ==
    CASE f \in Words -> tonb16(v)
      [] f = "polygon" -> <<Len(v)>> \o
                          FlattenSeq([k \in DOMAIN v |-> tonb16(v[k][1]) \o
                                                         tonb16(v[k][2])])
      [] f = "rooms" -> <<Len(v)>> \o v
      [] f = "name" -> <<Len(v)>> \o Pad(v)
      [] OTHER -> <<v>>

\* A field as it is pushed into a report. The handler appended a NUL to every
\* name; a room's name is reported unpadded, the others in NameField bytes.
ReportField(k, f, v) ==
    CASE f = "name" -> <<Byte(Len(v))>> \o (IF k = "names" THEN v ELSE Pad(v))
      [] f = "polygon" -> RequestField(f, [j \in DOMAIN v |-> <<ToTuya(v[j][1]),
                                                               ToTuya(v[j][2])>>])
      [] f \in Coordinates -> RequestField(f, ToTuya(v))
      [] OTHER -> RequestField(f, v)

\* The order in which the phone sends the header ("count" is the number of
\* items) and the fields of an item.
PhoneHead ==
    [k \in Kinds |->
        CASE k \in {"wall", "area", "order", "props", "names"} -> <<"count">>
          [] k \in {"areaNamed", "areaTyped"} -> <<"version", "count">>
          [] k \in {"zone", "room"} -> <<"repeat", "count">>
          [] k = "zoneNamed" -> <<"version", "repeat", "count">>
          [] k = "spot" -> <<"x", "y">>
          [] k = "spot1" -> <<"version", "mode", "suction", "cistern",
                              "repeat", "x", "y">>
          [] k = "alert" -> <<"zone", "count">>
          [] k = "dnd" -> <<"zone", "start", "startDay", "end", "endDay">>
          [] k = "dnd1" -> <<"version", "onoff", "zone", "start", "startDay",
                             "end", "endDay">>]

PhoneItems ==
    [k \in Kinds |->
        CASE k = "wall" -> <<"x0", "y0", "x1", "y1">>
          [] k = "area" -> <<"mode", "polygon">>
          [] k = "areaNamed" -> <<"mode", "polygon", "name">>
          [] k = "areaTyped" -> <<"mode", "type", "polygon", "name">>
          [] k = "zone" -> <<"polygon">>
          [] k = "zoneNamed" -> <<"polygon", "name">>
          [] k \in {"room", "order"} -> <<"id">>
          [] k = "alert" -> <<"valid", "days", "time", "rooms", "mode", "fan",
                              "water", "repeat">>
          [] k = "props" -> <<"id", "fan", "water", "ymop", "repeat">>
          [] k = "names" -> <<"id", "name">>
          [] OTHER -> <<>>]

\* Where the handler looks for the fields of the header and for the first item,
\* as indexes into the frame it was given (data[3] is the command). The handler
\* of 0x3E takes version 1 for granted, which is what the phone sends.
HeadAt ==
    [k \in Kinds |->
        CASE k \in {"wall", "area", "order", "props", "names"} -> [count |-> 4]
          [] k \in {"areaNamed", "areaTyped"} -> [version |-> 4, count |-> 5]
          [] k \in {"zone", "room"} -> [repeat |-> 4, count |-> 5]
          [] k = "zoneNamed" -> [version |-> 4, repeat |-> 5, count |-> 6]
          [] k = "spot" -> [x |-> 4, y |-> 6]
          [] k = "spot1" -> [version |-> 4, mode |-> 5, suction |-> 6, cistern |-> 7,
                             repeat |-> 8, x |-> 9, y |-> 11]
          [] k = "alert" -> [zone |-> 4, count |-> 5]
          [] k = "dnd" -> [zone |-> 4, start |-> 5, startDay |-> 7, end |-> 8,
                           endDay |-> 10]
          [] k = "dnd1" -> [version |-> 4, onoff |-> 5, zone |-> 6, start |-> 7,
                            startDay |-> 9, end |-> 10, endDay |-> 12]]
ItemsAt ==
    [k \in Kinds |->
        CASE k \in {"wall", "area", "order", "props", "names"} -> 5
          [] k = "zoneNamed" -> 7
          [] OTHER -> 6]

\* Mutant: fan and water of a room's properties are taken for each other.
ItemFieldsSwapped ==
    [PhoneItems EXCEPT !["props"] = <<"id", "water", "fan", "ymop", "repeat">>]

\* The order in which the handler's cursor goes through an item.
ItemFields ==
    [k \in Kinds |->
        CASE k = "wall" -> <<"x0", "y0", "x1", "y1">>
          [] k = "area" -> <<"mode", "polygon">>
          [] k = "areaNamed" -> <<"mode", "polygon", "name">>
          [] k = "areaTyped" -> <<"mode", "type", "polygon", "name">>
          [] k = "zone" -> <<"polygon">>
          [] k = "zoneNamed" -> <<"polygon", "name">>
          [] k \in {"room", "order"} -> <<"id">>
          [] k = "alert" -> <<"valid", "days", "time", "rooms", "mode", "fan",
                              "water", "repeat">>
          [] k = "props" -> <<"id", "fan", "water", "ymop", "repeat">>
          [] k = "names" -> <<"id", "name">>
          [] OTHER -> <<>>]

\* The order of the push_back calls: the header of the report, in which the
\* switch and the time zone of the do-not-disturb time change places, and its
\* items.
ReportHead ==
    [k \in Kinds |->
        CASE k \in {"wall", "area", "order", "props", "names"} -> <<"count">>
          [] k \in {"areaNamed", "areaTyped"} -> <<"version", "count">>
          [] k \in {"zone", "room"} -> <<"repeat", "count">>
          [] k = "zoneNamed" -> <<"version", "repeat", "count">>
          [] k = "spot" -> <<"x", "y">>
          [] k = "spot1" -> <<"version", "mode", "suction", "cistern",
                              "repeat", "x", "y">>
          [] k = "alert" -> <<"zone", "count">>
          [] k = "dnd" -> <<"zone", "start", "startDay", "end", "endDay">>
          [] k = "dnd1" -> <<"version", "zone", "onoff", "start", "startDay",
                             "end", "endDay">>]
ReportItems ==
    [k \in Kinds |->
        CASE k = "wall" -> <<"x0", "y0", "x1", "y1">>
          [] k = "area" -> <<"mode", "polygon">>
          [] k = "areaNamed" -> <<"mode", "polygon", "name">>
          [] k = "areaTyped" -> <<"mode", "type", "polygon", "name">>
          [] k = "zone" -> <<"polygon">>
          [] k = "zoneNamed" -> <<"polygon", "name">>
          [] k \in {"room", "order"} -> <<"id">>
          [] k = "alert" -> <<"valid", "days", "time", "rooms", "mode", "fan",
                              "water", "repeat">>
          [] k = "props" -> <<"id", "fan", "water", "ymop", "repeat">>
          [] k = "names" -> <<"id", "name">>
          [] OTHER -> <<>>]

\* What a field can hold: words with a sign, names of at most NameField bytes,
\* at most 255 points of a polygon or rooms of a list.
Word == -32768..32767
FieldOK(f, v) ==
    /\ f \in Words => v \in Word
    /\ f = "polygon" => v \in Seq(Word \X Word) /\ Len(v) <= 255
    /\ f = "rooms" => v \in Seq(Bytes) /\ Len(v) <= 255
    /\ f = "name" => v \in Seq(Bytes) /\ Len(v) <= NameField
    /\ f \notin Words \cup {"polygon", "rooms", "name"} => v \in Bytes

RecordOK(r, fields) ==
    r = [f \in fields |-> r[f]] /\ \A f \in fields : FieldOK(f, r[f])

\* The phone's settings have the fields of their kind, and no items where the
\* request has no number of them.
SettingOK(k, s) ==
    /\ RecordOK(s.head, Range(PhoneHead[k]) \ {"count"})
    /\ s.items \in Seq(Range(s.items)) /\ Len(s.items) <= 255
    /\ "count" \notin Range(PhoneHead[k]) => s.items = <<>>
    /\ \A i \in DOMAIN s.items : RecordOK(s.items[i], Range(PhoneItems[k]))

\* A version makes a kind of its own.
VersionOf(k) == IF k = "areaTyped" THEN 2 ELSE 1

\* Zones come at least one at a time: the handlers report the repeat count of
\* the first one without looking whether there is one.
ASSUME SettingsAssumption ==
    \A k \in Kinds : \A s \in Settings[k] :
        /\ s # NoSetting /\ SettingOK(k, s)
        /\ k \in {"zone", "zoneNamed"} => s.items # <<>>
        /\ "version" \in DOMAIN s.head => s.head["version"] = VersionOf(k)

HeadValue(s, f) == IF f = "count" THEN Len(s.items) ELSE s.head[f]

\* The fields of all items: item after item, or (room properties) all values of
\* the first field, then all of the second.
ByItem(s, fields, Enc(_, _)) ==
    FlattenSeq([i \in DOMAIN s.items |->
        FlattenSeq([j \in DOMAIN fields |-> Enc(fields[j], s.items[i][fields[j]])])])
ByField(s, fields, Enc(_, _)) ==
    FlattenSeq([j \in DOMAIN fields |->
        FlattenSeq([i \in DOMAIN s.items |-> Enc(fields[j], s.items[i][fields[j]])])])

Head1(s, layout, Enc(_, _)) ==
    FlattenSeq([j \in DOMAIN layout |-> Enc(layout[j], HeadValue(s, layout[j]))])

\* The body of the request that carries setting s.
RequestBody(k, s) ==
    Head1(s, PhoneHead[k], RequestField) \o ByItem(s, PhoneItems[k], RequestField)

(* Decoding: fixed offsets in the header, a cursor through the items. Maps   *)
(* ms come in meanwhile.                                                     *)

FieldWidth(d, p, f) ==
    CASE f \in Words -> 2
      [] f = "polygon" -> 1 + 4 * d[p]
      [] f = "rooms" -> 1 + d[p]
      [] f = "name" -> 1 + NameField
      [] OTHER -> 1

\* A name gets a NUL appended, which counts in its length from then on.
FieldValue(d, p, f, ms) ==
    CASE f \in Coordinates -> ToMars(ms, p, nbto16(SubSeq(d, p, p + 1)))
      [] f \in Words \ Coordinates -> nbto16(SubSeq(d, p, p + 1))
      [] f = "polygon" ->
            [j \in 1..d[p] |->
                <<ToMars(ms, p + 4*j - 3, nbto16(SubSeq(d, p + 4*j - 3, p + 4*j - 2))),
                  ToMars(ms, p + 4*j - 1, nbto16(SubSeq(d, p + 4*j - 1, p + 4*j)))>>]
      [] f = "rooms" -> SubSeq(d, p + 1, p + d[p])
      [] f = "name" -> SubSeq(d, p + 1, p + d[p]) \o <<0>>
      [] OTHER -> d[p]

\* Where each field of layout lies in d when the first is at p, and where the
\* last one ends.
Cursor(d, p, layout) ==
    LET pos[j \in 1..Len(layout) + 1] ==
            IF j = 1 THEN p
            ELSE LET q == pos[j - 1] IN q + FieldWidth(d, q, layout[j - 1])
    IN  pos
EndOf(d, p, layout) == Cursor(d, p, layout)[Len(layout) + 1]

Place(layout, f) == CHOOSE j \in DOMAIN layout : layout[j] = f

ReadFields(d, p, layout, ms) ==
    LET pos == Cursor(d, p, layout)
    IN  [f \in Range(layout) |-> FieldValue(d, pos[Place(layout, f)], f, ms)]

ReadItems(d, p, n, layout, ms) ==
    LET start[i \in 1..n + 1] ==
            IF i = 1 THEN p ELSE EndOf(d, start[i - 1], layout)
    IN  [i \in 1..n |-> ReadFields(d, start[i], layout, ms)]

ReadHead(d, k, ms) ==
    [f \in DOMAIN HeadAt[k] |-> FieldValue(d, HeadAt[k][f] - 3, f, ms)]

\* A room is cleaned once when the request says more than twice.
Clamped(k, h) == IF k = "room" /\ h["repeat"] > 2 THEN [h EXCEPT !["repeat"] = 1] ELSE h

\* The setting in body d of a request of kind k.
Decode(k, d, ms) ==
    LET h == ReadHead(d, k, ms)
        n == IF "count" \in DOMAIN h THEN h["count"] ELSE 0
    IN  [head  |-> Clamped(k, Restrict(h, DOMAIN h \ {"count"})),
         items |-> ReadItems(d, ItemsAt[k] - 3, n, ItemFields[k], ms)]

\* Mutant: one area more.
Accepts15(k, s) == k = "area" => Len(s.items) <= 15

\* Too many restricted areas are dropped without an answer.
Accepted(k, s) == k = "area" => Len(s.items) <= 14

----------------------------------------------------------------------------
(* Encoding: To*Data and TuyaReport*.                                       *)

\* Mutant: the values of one field together, as the room properties have them.
ItemsByField(k, s) ==
    ByField(s, ReportItems[k], LAMBDA f, v : ReportField(k, f, v))

Items(k, s) ==
    IF k = "props" THEN ByField(s, ReportItems[k], LAMBDA f, v : ReportField(k, f, v))
    ELSE ByItem(s, ReportItems[k], LAMBDA f, v : ReportField(k, f, v))

\* More than ten virtual walls are reported as none.
Reportable(k, s) ==
    IF k = "wall" /\ Len(s.items) > 10 THEN [s EXCEPT !.items = <<>>] ELSE s

ReportBody(k, s) ==
    LET r == Reportable(k, s)
    IN  Head1(r, ReportHead[k], LAMBDA f, v : ReportField(k, f, v)) \o Items(k, r)

\* The command of the report.
ReportCmd ==
    [k \in Kinds \cup Commands |->
        CASE k = "wall" -> 19        [] k = "area" -> 27
          [] k = "areaNamed" -> 57   [] k = "areaTyped" -> 57
          [] k = "zone" -> 41        [] k = "zoneNamed" -> 59
          [] k = "room" -> 21        [] k = "spot" -> 23
          [] k = "spot1" -> 63       [] k = "order" -> 39
          [] k = "alert" -> 49       [] k = "dnd" -> 51
          [] k = "dnd1" -> 65        [] k = "props" -> 35
          [] k = "names" -> 37       [] k = "split" -> 29
          [] k = "merge" -> 31       [] k = "restore" -> 33
          [] k = "mapping" -> 61     [] k = "reset" -> 67]

Report(k, s) == Frame(ReportCmd[k], ReportBody(k, s))

----------------------------------------------------------------------------
(* The handlers.                                                            *)

\* What the robot can be asked for afterwards: a spot (either form) and rooms.
Slot(k) == CASE k \in {"spot", "spot1"} -> "spot" [] k = "room" -> "room" [] OTHER -> "other"

RawInit ==
    /\ waits = "idle" /\ kind = "wall"
    /\ taken = NoSetting /\ asked = NoSetting
    /\ held = [spot |-> NoSetting, room |-> NoSetting]
    /\ res \in Resolutions \ {0} /\ scale = {res}
    /\ frame = <<>> /\ count = [sets |-> 0, maps |-> 0]

Holds(k, s) == IF Slot(k) \in DOMAIN held THEN [held EXCEPT ![Slot(k)] = s] ELSE held

\* ToTuyaMap on the LCM thread, between two steps of the handler; the resolution
\* is 0 when the map of a cleaning record is made before any map has come.
OnMap(r) ==
    /\ count.maps < MaxMaps /\ count' = [count EXCEPT !.maps = @ + 1]
    /\ res' = r
    /\ UNCHANGED <<waits, kind, taken, held, frame, asked, scale>>

\* A request is read while maps ms come in.
NewRequest(k, ms) ==
    /\ waits = "idle" /\ count.sets < MaxSets /\ count.maps + Len(ms) <= MaxMaps
    /\ count' = [sets |-> count.sets + 1, maps |-> count.maps + Len(ms)]
    /\ kind' = k /\ frame' = <<>> /\ scale' = InForce(ms)
    /\ res' = IF ms = <<>> THEN res ELSE ms[Len(ms)].res
    /\ UNCHANGED held

\* The phone sends setting s; the handler takes it and asks the robot.
Set(k, s, ms) ==
    /\ NewRequest(k, ms)
    /\ asked' = s
    /\ taken' = Decode(k, RequestBody(k, s), ms)
    /\ waits' = IF Accepted(k, taken') THEN "set" ELSE "idle"

\* A command without a setting.
Command(c) ==
    /\ NewRequest(c, <<>>)
    /\ asked' = NoSetting /\ taken' = NoSetting
    /\ waits' = "command"

\* A query for the rooms or the spot being cleaned (0x15, 0x17, 0x3F). The one
\* for virtual walls (0x13) asks the robot and sends nothing.
Query(k) ==
    /\ NewRequest(k, <<>>)
    /\ asked' = NoSetting /\ taken' = NoSetting
    /\ waits' = "query"

\* The robot takes or refuses the setting; its code is not looked at and the
\* setting is reported either way.
AnswerSet ==
    /\ waits = "set" /\ waits' = "idle"
    /\ held' \in {held, Holds(kind, taken)}
    /\ frame' = Report(kind, taken)
    /\ UNCHANGED <<kind, taken, res, asked, scale, count>>

\* Splitting, merging and restoring rooms report the robot's code, and nothing
\* without an answer; quick mapping and reset always report success ("ret =
\* 0x00" assigns).
AnswerCommand ==
    /\ waits = "command" /\ waits' = "idle"
    /\ \E answered, does \in BOOLEAN :
          frame' = IF ~answered /\ kind \notin {"mapping", "reset"} THEN <<>>
                   ELSE Frame(ReportCmd[kind],
                              <<IF kind \in {"mapping", "reset"} \/ does THEN 1 ELSE 0>>)
    /\ UNCHANGED <<kind, taken, held, res, asked, scale, count>>

\* A spot is reported in the short form when the query asks for that one or the
\* setting has no other.
Form(k, h) == IF k = "spot1" /\ "version" \notin DOMAIN h.head THEN "spot" ELSE k

AnswerQuery ==
    /\ waits = "query" /\ waits' = "idle"
    /\ held[Slot(kind)] # NoSetting
    /\ frame' = LET h == held[Slot(kind)]
                IN  IF kind = "room" /\ h.items = <<>> THEN <<>>
                    ELSE Frame(ReportCmd[kind], ReportBody(Form(kind, h), h))
    /\ UNCHANGED <<kind, taken, held, res, asked, scale, count>>

\* No answer within the time TuyaComm waits: the handler logs it. The robot may
\* have taken the setting.
RobotSilent ==
    /\ waits \in {"set", "query"} /\ waits' = "idle"
    /\ held' \in {held} \cup (IF waits = "set" THEN {Holds(kind, taken)} ELSE {})
    /\ UNCHANGED <<kind, taken, res, frame, asked, scale, count>>

RawNext ==
    \/ \E k \in Kinds : \E s \in Settings[k] : \E ms \in Arrivals : Set(k, s, ms)
    \/ \E c \in Commands : Command(c)
    \/ \E k \in {"room", "spot", "spot1"} : Query(k)
    \/ AnswerSet \/ AnswerCommand \/ AnswerQuery
    \/ RobotSilent
    \/ \E r \in Resolutions : OnMap(r)

RawSpec == RawInit /\ [][RawNext]_rawVars

----------------------------------------------------------------------------
(* Properties.                                                              *)

BodyOf(fr) == SubSeq(fr, 5, Len(fr) - 1)

\* The reports whose length byte can say how long they are: those of a request
\* that had such a byte itself; virtual walls and restricted areas of up to four
\* corners even when the request had not (at most ten are reported, at most
\* fourteen accepted); answers to queries, of up to 252 rooms. Room names are
\* left out: their NULs can push the twelfth 19-byte name past the byte.
LengthFits ==
    \/ kind \in Commands \cup {"wall"}
    \/ kind = "area" /\ \A i \in DOMAIN asked.items :
                          Len(asked.items[i]["polygon"]) <= 4
    \/ asked = NoSetting /\ (kind = "room" => Len(held["room"].items) <= 252)
    \/ asked # NoSetting /\ kind # "names" /\ Len(RequestBody(kind, asked)) < 255

\* The phone can find the end of a report and check it: the length byte says
\* what follows up to the checksum, the checksum is that of command and body,
\* and all are bytes.
FrameExact ==
    (frame # <<>> /\ LengthFits) =>
        /\ Len(frame) = frame[3] + 4
        /\ frame[Len(frame)] = SumBytes(SubSeq(frame, 4, Len(frame) - 1))
        /\ \A n \in DOMAIN frame : frame[n] \in Bytes

\* Value w of field f stands for the phone's v, each length in metres at a
\* resolution that was in force while the request was read.
InMetres(f, v, w) ==
    CASE f \in Coordinates -> \E u \in scale : w = v * u
      [] f = "polygon" ->
            /\ Len(w) = Len(v)
            /\ \A j \in DOMAIN v : \E a, b \in scale : w[j] = <<v[j][1] * a, v[j][2] * b>>
      [] f = "name" -> w = v \o <<0>>
      [] OTHER -> w = v

\* What the phone meant is what the robot is asked to do: the handler's offsets,
\* cursors, word order and sign handling (TuyaHandleStandardFunction) find every
\* field where the phone put it, polygons, room lists and negative coordinates
\* included; only a repeat count above two becomes one, and names end with a
\* NUL. A map that comes in meanwhile moves the points read after it to its
\* resolution and touches nothing else; without one all lie at the same.
TakenIsMeant ==
    taken # NoSetting =>
        /\ \A f \in DOMAIN asked.head :
              \/ InMetres(f, asked.head[f], taken.head[f])
              \/ kind = "room" /\ f = "repeat" /\ asked.head[f] > 2 /\ taken.head[f] = 1
        /\ Len(taken.items) = Len(asked.items)
        /\ \A i \in DOMAIN asked.items : \A f \in DOMAIN asked.items[i] :
              InMetres(f, asked.items[i][f], taken.items[i][f])

\* The kinds whose report has the layout of the request (not the named ones,
\* the do-not-disturb time with a switch, or the properties of several rooms,
\* whose encoders order or count differently).
Mirrored ==
    {"wall", "area", "zone", "room", "spot", "spot1", "order", "alert", "dnd"}

\* The report of a setting reads like the request for it, so that the phone
\* shows what was set: both conversions of every coordinate cancel out unless
\* a map of another resolution came since the request, or none has come yet.
ReportMirrorsRequest ==
    [][(waits = "set" /\ frame' # <<>> /\ kind \in Mirrored
           /\ scale = {res} /\ res # 0) =>
         BodyOf(frame') =
            RequestBody(kind, [head  |-> Clamped(kind, asked.head),
                               items |-> IF kind = "wall" /\ Len(asked.items) > 10
                                         THEN <<>> ELSE asked.items])]_rawVars

\* Coordinate c is where length m lies, to half a unit of the resolution (or
\* there is none yet, or m does not fit into a word).
Near(c, m) ==
    (res # 0 /\ ToTuya(m) \in Word) => 2 * (c * res - m) \in -res..res

\* A query is answered with what the robot holds at that time: the rooms, or
\* the spot, to half a unit of the present resolution, in the form the query
\* asks for; a 0x17 report is short even when the spot was set in the long form.
QueryShowsHeld ==
    [][(waits = "query" /\ frame' # <<>>) =>
         LET body == BodyOf(frame')
             n == Len(body)
         IN  IF kind = "room" THEN body = RequestBody("room", held["room"])
             ELSE /\ n = IF kind = "spot1" /\ "version" \in DOMAIN held["spot"].head
                         THEN 9 ELSE 4
                  /\ Near(nbto16(SubSeq(body, n - 3, n - 2)), held["spot"].head["x"])
                  /\ Near(nbto16(SubSeq(body, n - 1, n)), held["spot"].head["y"])]_rawVars

============================================================================
