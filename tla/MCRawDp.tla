------------------------------ MODULE MCRawDp --------------------------------
(* Small settings of every kind, with counts at the limits of the handlers. *)
EXTENDS RawDp

Rep(n, item) == [i \in 1..n |-> item]
Of(h, its) == [head |-> h, items |-> its]
None == [f \in {} |-> 0]

Square == <<<<-1, 300>>, <<7, 300>>, <<7, -513>>, <<-1, -513>>>>
Line == [x0 |-> -300, y0 |-> 5, x1 |-> 0, y1 |-> -1]
Line2 == [x0 |-> 32767, y0 |-> -32768, x1 |-> 256, y1 |-> 255]
Area == [mode |-> 2, polygon |-> Square]
Named(n) == [mode |-> 1, polygon |-> Square, name |-> Rep(n, 65)]
Typed(n) == [mode |-> 1, type |-> 1, polygon |-> Square, name |-> Rep(n, 65)]
ZoneNamed(n) == [polygon |-> Square, name |-> Rep(n, 66)]
Alert(rs) == [valid |-> 1, days |-> 127, time |-> 1439, rooms |-> rs, mode |-> 1,
              fan |-> 2, water |-> 3, repeat |-> 1]
Prop(i) == [id |-> i, fan |-> 1, water |-> 2, ymop |-> 0, repeat |-> 3]
NameOf(n) == [id |-> 4, name |-> Rep(n, 67)]

(* The settings of each kind are a definition of their own, which TLC brings *)
(* into its normal form once, before its workers share the values.          *)

Walls == {Of(None, <<>>), Of(None, <<Line, Line2>>),
          Of(None, Rep(10, Line)), Of(None, Rep(11, Line))}
Areas == {Of(None, Rep(n, Area)) : n \in {0, 1, 14, 15}}
AreasNamed == {Of([version |-> 1], <<Named(3), Named(19)>>)}
AreasTyped == {Of([version |-> 2], <<Typed(0), Typed(4)>>)}
Zones == {Of([repeat |-> 2], Rep(n, [polygon |-> Square])) : n \in {1, 2}}
ZonesNamed == {Of([version |-> 1, repeat |-> 1], <<ZoneNamed(19), ZoneNamed(2)>>)}
Rooms == {Of([repeat |-> n], <<[id |-> 9], [id |-> 3]>>) : n \in {2, 3}}
         \cup {Of([repeat |-> 1], <<>>)}
Spots == {Of([x |-> -2, y |-> 700], <<>>)}
Spots1 == {Of([version |-> 1, mode |-> 0, suction |-> 2, cistern |-> 1,
               repeat |-> 2, x |-> 90, y |-> -257], <<>>)}
Orders == {Of(None, <<[id |-> 5], [id |-> 1], [id |-> 250]>>)}
Alerts == {Of([zone |-> 8], <<Alert(<<>>), Alert(<<1, 2>>)>>)}
Dnds == {Of([zone |-> 8, start |-> 5632, startDay |-> 0, end |-> 1800,
             endDay |-> 1], <<>>)}
Dnds1 == {Of([version |-> 1, onoff |-> 1, zone |-> 8, start |-> 5632,
              startDay |-> 0, end |-> 1800, endDay |-> 1], <<>>)}
Props == {Of(None, <<Prop(1), Prop(2)>>)}
RoomNames == {Of(None, <<NameOf(19), NameOf(1)>>)}

MCSettings ==
    [wall |-> Walls, area |-> Areas, areaNamed |-> AreasNamed,
     areaTyped |-> AreasTyped, zone |-> Zones, zoneNamed |-> ZonesNamed,
     room |-> Rooms, spot |-> Spots, spot1 |-> Spots1, order |-> Orders,
     alert |-> Alerts, dnd |-> Dnds, dnd1 |-> Dnds1, props |-> Props,
     names |-> RoomNames]

(* A map may come in before the first point, or behind some points.         *)
Cuts == {3, 10}
MCArrivals == {<<>>} \cup {<<[cut |-> c, res |-> r]>> : c \in Cuts, r \in {0, 4, 6}}

(* A conversion that saturates, its low word taken.                         *)
MCByZero == [i \in {-1, 0, 1} |-> IF i = 1 THEN -1 ELSE 0]
============================================================================
