---------------------------- MODULE BoardWiring ----------------------------
(***************************************************************************)
(* The path between the processor, the DMA controller, the cards and the   *)
(* memory, as src/src/board/board_wiring.h wires it: one definition per    *)
(* chip, the order in which they register, and the levels after power-on.  *)
(*                                                                         *)
(* Numbers: ad, d, xd, md (bytes), amid/ahi (AD8-15, A16-19), la03, la47,  *)
(* xa03, xa47, da47 (nibbles), la8f (A8-15), xa8c (XA8-12), ma03, ma47.    *)
(* Other nets are lines.  Not here, since they read the path but drive     *)
(* nothing of it: U26, U27, the switches, U2, U34, U36, U63.               *)
(***************************************************************************)
EXTENDS BoardChips

Rails == {"vcc", "gnd"}
LA1619 == {"la16", "la17", "la18", "la19"}
Dacks == {"dack0", "dack1", "dack2", "dack3"}

(***************************************************************************)
(* What the large chips declare                                            *)
(***************************************************************************)
\* U3 8088: AD, and the status with ~LOCK, which it lets go in T2 of a read.
U3 == Chip("cpu", <<>>, {"reset", "clk"}, {"amid", "ahi"},
           <<Block({"ad"}), Block({"s0", "s1", "s2", "lock"})>>)

\* U6 8288: CEN is asynchronous, and so are A18 and A19.
U6 == Chip("8288", <<>>, {"clk", "s0", "s1", "s2", "rw"},
           {"ale", "dtr", "memr", "memw", "ior", "iow"}, <<>>)

\* U35 8237A: its ~DACKs are plain outputs, all else switches.
U35 == Chip("8237A", <<>>, {"reset"}, Dacks,
            <<Block({"xior", "xiow"}), Block({"dmaCs"}),
              Block({"hrq", "eop"}), Block({"adstb"}),
              Block({"xa03", "da47"}), Block({"xd"}),
              Block({"xmemr", "xmemw"})>>)

\* U29-U33, the ROM: ~CS asynchronous.
U29 == Chip("rom", <<>>, {"xa03", "xa47", "xa8c", "xd"}, {},
            <<Block({"xd"})>>)

\* U37-U45, U53-U61, U69-U77, U85-U93, the RAM: ~WE asynchronous.
U37 == Chip("dram", <<>>,
            {"ma03", "ma47", "md", "ras0", "ras1", "ras2", "ras3",
             "cas0", "cas1", "cas2", "cas3"}, {}, <<Block({"md"})>>)

\* J1-J5, the slots: AEN, ~DACKs and T/C asynchronous; A0-A3 and D switch.
J1 == Chip("isa", <<>>,
           {"la47", "la8f", "ior", "iow", "memr", "memw"} \cup LA1619,
           {"drq2"}, <<Block({"la03"}), Block({"d"})>>)

(***************************************************************************)
(* Data and command transceivers                                           *)
(***************************************************************************)
U8 == Transceiver(<<"ad">>, <<"d">>)
U12 == Transceiver(<<"d">>, <<"md">>)
U13 == Transceiver(<<"d">>, <<"xd">>)
U14 == Transceiver(<<"ior", "iow", "memr", "memw">>,
                   <<"xior", "xiow", "xmemr", "xmemw">>)

(***************************************************************************)
(* Address latches, buffers and the page register                          *)
(***************************************************************************)
U10 == Latch("ad", <<"la03", "la47">>, "ale", "aenBrd")
U9 == Latch("amid", <<"la8f">>, "ale", "aenBrd")
U7 == Latch("ahi", <<"la16", "la17", "la18", "la19">>, "ale", "aenBrd")
U18 == DmaLatch("xd", <<"la8f">>, "adstb", "dmaAenBar")
U19 == PageRegister("dmaAenBar", "wrtPg")

U15 == Buffers("gnd", <<Buffer("la8f", "xa8c", 5),
                        Buffer("aenBrd", "isaAen", 1),
                        Buffer("dack0", "isaDack0", 1),
                        Buffer("clk", "isaClk", 1)>>)
U16 == Buffers("aenBrd", <<Buffer("la03", "xa03", 4),
                           Buffer("la47", "xa47", 4)>>)
U17 == Buffers("dmaAenBar", <<Buffer("xa03", "la03", 4),
                              Buffer("da47", "la47", 4)>>)

(***************************************************************************)
(* Selects                                                                 *)
(***************************************************************************)
\* I/O: A5-A7 when A8 and A9 are low; A8 is asynchronous, but orders nobody.
U66 == Decoder(Line("aenBar"), Bit("xa8c", 1), Bit("xa8c", 0),
               <<Bit("xa47", 1), Bit("xa47", 2), Bit("xa47", 3)>>, 0,
               <<"dmaCs", "intrCs", "pitCs", "ppiCs", "pgCs">>)

U64 == DualNand(<<<<"la19", "la18", "la17", "la16", "romSel">>,
                  <<"n239", "n239", "xiow", "xior", "n240">>>>)

U46 == Decoder(Line("vcc"), Line("xmemr"), Line("romSel"),
               <<Bit("la8f", 5), Bit("la8f", 6), Bit("la8f", 7)>>, 3,
               <<"cs3", "cs4", "cs5", "cs6", "cs7">>)

U48 == Decoder(Line("dack0"), Line("gnd"), Line("la19"),
               <<Line("gnd"), Line("gnd"), Line("la18")>>, 0,
               <<"ramSel">>)

U65 == Decoder(Line("ras"), Line("gnd"), Line("ramSel"),
               <<Line("la16"), Line("la17"), Line("vcc")>>, 4,
               <<"bs0", "bs1", "bs2", "bs3">>)

U47 == Decoder(Line("vcc"), Line("ramSel"), Line("cas"),
               <<Line("la16"), Line("la17"), Line("gnd")>>, 0,
               <<"cas0", "cas1", "cas2", "cas3">>)

(***************************************************************************)
(* RAM address and strobes                                                 *)
(***************************************************************************)
U62 == Mux("gnd", "addrSel", "la03", "la8f", 1, "ma03")
U79 == Mux("gnd", "addrSel", "la47", "la8f", 16, "ma47")
U81 == RasCas
U49 == QuadAnd(<<<<"and", "bs2", "refGate", "ras2">>,
                 <<"and", "bs3", "refGate", "ras3">>,
                 <<"and", "bs0", "refGate", "ras0">>,
                 <<"and", "bs1", "refGate", "ras1">>>>)
U83 == HexInverter(<<<<"xmemw", "u83mid">>, <<"u83mid", "we">>,
                     <<"n243", "n238">>, <<"xmemr", "n241">>>>)

(***************************************************************************)
(* Bus grant: HRQ -> U99 -> U52 -> U5 -> U83 -> U98 -> U67 -> HOLDA, then  *)
(* U98 -> AEN, U97 -> U50 -> ~DMA_AEN; U82 makes the wait states.          *)
(***************************************************************************)
U99 == HexInverter(<<<<"hrq", "hrqBar">>, <<"eop", "tc">>,
                      <<"clk", "nclk">>, <<"pb7", "n371">>>>)
U52 == QuadNand(<<<<"vcc", "hrqBar", "n242">>, <<"nclk", "vcc", "dclk">>>>)
U5 == EightInputNand(<<"vcc", "vcc", "u101y4", "n242", "lock",
                         "s1", "s0", "s2">>, "n243")
U51 == HexInverter(<<<<"reset", "rdb">>>>)
U67 == DualFlipFlop(<<FlipFlop("n242", "n230", "n231", "nclk",
                                "holda", "n230"),
                       FlipFlop("dack0", "vcc", "vcc", "out1",
                                "drq0", "nc")>>)
\* The unused half of U82 has its ~Q on the ground net.
U82 == DualFlipFlop(<<FlipFlop("vcc", "vcc", "gnd", "gnd", "u82q1", "gnd"),
                       FlipFlop("n244", "ioChRdy", "dack0", "n240",
                                "rw", "n237")>>)
U98 == QuadFlipFlop("rdb", <<Stage("holda", "aenBrd", "aenBar"),
                              Stage("aenBrd", "n245", "dmaWaitBar"),
                              Stage("rw", "nc", "n244"),
                              Stage("n238", "n231", "nc")>>,
                     {"aenBar", "n245", "dmaWaitBar", "n244", "n231"})
U84 == TripleNand(<<<<"vcc", "vcc", "dtr", "n215">>,
                     <<"dack0", "aenBrd", "n241", "n239">>,
                     <<"gnd", "gnd", "gnd", "n235">>>>)
U97 == QuadAnd(<<<<"and", "n235", "n225", "nmi">>,
                  <<"wire", "n237", "n244", "rdyDma">>,
                  <<"and", "n245", "aenBrd", "n246">>>>)
U101 == QuadOr(<<<<"xiow", "pitCs", "pitWr">>, <<"xior", "pitCs", "pitRd">>,
                 <<"xiow", "pgCs", "wrtPg">>, <<"dmaCs", "xiow", "u101y4">>>>)
U50 == QuadNor(<<<<"n246", "n246", "dmaAenBar">>>>)

(***************************************************************************)
(* register_all(): the processor, then the chips in this order             *)
(***************************************************************************)
Order == <<"U3", "U8", "U13", "U14", "U12", "U15", "U16", "U17", "U10", "U9",
           "U7", "U66", "U64", "U46", "U29", "U62", "U79", "U81", "U48",
           "U65", "U49", "U47", "U83", "U35", "U99", "U52", "U5", "U67",
           "U82", "U98", "U51", "U18", "U19", "U84", "U97", "U101", "U50",
           "U37", "U6", "J1">>

Parts ==
  [U3 |-> U3, U8 |-> U8, U13 |-> U13, U14 |-> U14, U12 |-> U12, U15 |-> U15,
   U16 |-> U16, U17 |-> U17, U10 |-> U10, U9 |-> U9, U7 |-> U7, U66 |-> U66,
   U64 |-> U64, U46 |-> U46, U29 |-> U29, U62 |-> U62, U79 |-> U79,
   U81 |-> U81, U48 |-> U48, U65 |-> U65, U49 |-> U49, U47 |-> U47,
   U83 |-> U83, U35 |-> U35, U99 |-> U99, U52 |-> U52, U5 |-> U5, U67 |-> U67,
   U82 |-> U82, U98 |-> U98, U51 |-> U51, U18 |-> U18, U19 |-> U19,
   U84 |-> U84, U97 |-> U97, U101 |-> U101, U50 |-> U50, U37 |-> U37,
   U6 |-> U6, J1 |-> J1]

(***************************************************************************)
(* Levels after power_on_all(), the supply and the first drive of RESET    *)
(* and READY.  What no chip drove floats; buses hold zero.                 *)
(***************************************************************************)
Buses == {"ad", "amid", "ahi", "d", "xd", "md", "la03", "la47", "la8f",
          "xa03", "xa47", "xa8c", "da47"}

Floating ==
  LA1619 \cup Dacks \cup
  {"addrSel", "clk", "nclk", "dclk", "pb7", "n371", "hrqBar", "hrq", "tc",
   "eop", "u83mid", "we", "n238", "n241", "rdb", "isaAen", "isaDack0",
   "isaClk", "ioChRdy", "out1", "nc", "n225", "nmi", "dtr", "ale", "adstb",
   "xmemr", "xmemw", "xior", "xiow", "lock", "drq2"}

DrivenLow == {"gnd", "reset", "holda", "rw", "aenBrd", "n245", "n231",
              "n246", "u82q1", "drq0"}

DrivenHigh ==
  {"vcc", "s0", "s1", "s2", "ready", "memr", "memw", "ior", "iow",
   "dmaCs", "intrCs", "pitCs", "ppiCs", "pgCs", "ramSel", "romSel",
   "cs3", "cs4", "cs5", "cs6", "cs7", "bs0", "bs1", "bs2", "bs3",
   "ras0", "ras1", "ras2", "ras3", "cas0", "cas1", "cas2", "cas3",
   "ras", "cas", "refGate", "n215", "n230", "n235", "n237", "n239", "n240",
   "n242", "n243", "n244", "u101y4", "wrtPg", "pitWr", "pitRd", "aenBar",
   "dmaWaitBar", "rdyDma", "dmaAenBar"}

PowerOn ==
  [x \in Buses |-> 0] @@ [x \in Floating |-> HiZ]
    @@ [x \in DrivenLow |-> Low] @@ [x \in DrivenHigh |-> High]
    @@ [x \in {"ma03", "ma47"} |-> 15]
=============================================================================
