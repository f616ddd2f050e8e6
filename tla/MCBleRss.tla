------------------------------- MODULE MCBleRss -------------------------------
EXTENDS BleRss
CONSTANTS n1, long, d1, bulky, none, b1, alien

MCSize == [f \in {n1, long, d1, bulky, none} |->
             CASE f \in {long, bulky} -> 3 [] f = none -> 0 [] f = d1 -> 2 [] OTHER -> 1]
MCBeacon == [x \in {alien} |-> [complete |-> none, short |-> none, data |-> none, tx |-> FALSE]]

\* Two cycles, one, and none at all: as uint16_t.
MCCycleArg == {-65534, 1, 65536}
=============================================================================
