---------------------------- MODULE MCPcapReader ----------------------------
(***************************************************************************)
(* Command lines of up to three files or lists, with an option before or   *)
(* behind them, and files of every kind that the reader meets.             *)
(***************************************************************************)
EXTENDS PcapReader

Pcap(x) == <<x, ".", "pcap">>
Txt(x) == <<x, ".", "txt">>

Names == {Pcap("native"), Pcap("foreign"), Txt("good"), Txt("bad"),
          Txt("none"), <<".", "/native", ".", "pcap">>}

Options == {<<>>, <<<<"-threads">>, <<"2">>>>, <<<<"-threads">>, <<"8">>>>,
            <<<<"-threads">>, <<"9">>>>, <<<<"-threads">>>>,
            <<<<"-threads">>, <<"2", ".", "pcap">>>>,
            <<<<"-window">>, <<"64">>>>, <<<<"-window">>>>}

MCCommandLines == {o \o f : o \in Options, f \in BoundedSeq(Names, 3)}
                    \cup {f \o o : o \in Options, f \in BoundedSeq(Names, 2)}

MCAtoi(a) == CASE a \in {<<"2">>, <<"2", ".", "pcap">>} -> 2
               [] a = <<"8">> -> 8 [] a = <<"9">> -> 9
               [] a = <<"64">> -> 64 [] OTHER -> 0

Line(x, length) == [name |-> Pcap(x), length |-> length]

\* One list has empty lines and a name that fills the buffer, the other a line
\* that is too long for it.
MCTextFiles == (Txt("good") :> <<Line("empty", 10), Line("", 0), Line("foreign8", 39), Line("long", 45)>>)
            @@ (Txt("bad") :> <<Line("short", 10), Line("large", 10), Line("other", 10)>>)

File(magic, records, size) == [magic |-> magic, records |-> records, size |-> size]

\* The second record of native just fits the buffer, that of large does not;
\* short ends in the data of its last record, and foreign has a length of two
\* bytes.
MCPcapFiles == (Pcap("native") :> File("native", <<100, 2500>>, 2656))
            @@ (Pcap("large") :> File("native", <<100, 3000, 60>>, 3232))
            @@ (Pcap("foreign") :> File("swapped", <<40, 300, 20>>, 432))
            @@ (Pcap("foreign8") :> File("swapped", <<255, 0>>, 311))
            @@ (Pcap("short") :> File("native", <<70, 500, 90>>, 700))
            @@ (Pcap("other") :> File("other", <<>>, 24))
            @@ (Pcap("empty") :> File("other", <<>>, 0))

=============================================================================
