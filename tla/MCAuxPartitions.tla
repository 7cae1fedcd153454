--------------------------- MODULE MCAuxPartitions --------------------------
(* Small instances of AuxPartitions. *)
EXTENDS AuxPartitions

MCOsds == 1..2
MCCarriers == 1..2
MCSlots == 1..2
\* Room for two partitions on the WAL carrier and for one on the DB carrier.
MCSize == [c \in MCCarriers |-> IF c = 1 THEN 2 ELSE 1]
\* Two disks with WAL partitions, with and without leave to wipe the carrier, one
\* with that leave, or one disk with a WAL and a DB partition.
MCRequests ==
    [n : {2}, wal : {{1}}, db : {{}}, wipe : BOOLEAN]
        \cup [n : {1}, wal : {{1}}, db : {{}}, wipe : {TRUE}]
        \cup [n : {1}, wal : {{1}}, db : {{2}}, wipe : {FALSE}]
NoOsd == [o \in MCOsds |-> NoAux]
Start(l, p) == [label |-> l, gpt |-> p, foreign |-> {}, row |-> {},
                manifest |-> NoOsd, link |-> NoOsd]
Empty == [c \in MCCarriers |-> Free]
At(c, s, u) == [c |-> c, slot |-> s, uuid |-> u]

\* Blank carriers; a carrier with somebody else's partition in its second slot;
\* an OSD of an old version, whose slot still holds its partition or, after it
\* was freed and used again, another one.
MCStarts ==
    {Start([c \in MCCarriers |-> "blank"], Empty),
     [Start([c \in MCCarriers |-> IF c = 1 THEN "gpt" ELSE "data"],
            [Empty EXCEPT ![1][2] = 1]) EXCEPT !.foreign = {1}]}
        \cup {[Start([c \in MCCarriers |-> IF c = 1 THEN "gpt" ELSE "blank"],
                     [Empty EXCEPT ![1][1] = u])
                EXCEPT !.foreign = {u} \ {1}, !.row = {1},
                       !.manifest[1].wal = At(1, 1, 0), !.link[1].wal = At(1, 1, 1)]
              : u \in {1, 2}}
==============================================================================
