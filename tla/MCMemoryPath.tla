---------------------------- MODULE MCMemoryPath ----------------------------
(***************************************************************************)
(* Eight programs: to memory or from it, byte by byte (single) or in one   *)
(* service (block), with a master clear first or on the state the power-on *)
(* leaves.  The buffer lies in bank 1 across a change of the upper address *)
(* byte, 02FFh to 0300h of page 1.  After the start the processor reads    *)
(* and writes other banks, reads the buffer and fetches from the ROM.      *)
(***************************************************************************)
EXTENDS MemoryPath

Out8(port, byte) == Op("IoW", port, byte)

\* Channel 2: mode, address, count, page 1, unmask; then the card starts.
Setup(mode, addr, count, command) ==
  <<Out8(11, mode), Out8(4, addr % 256), Out8(4, addr \div 256),
    Out8(5, count % 256), Out8(5, count \div 256), Out8(129, 1),
    Out8(10, 2), Out8(1013, command)>>

\* The card's status, then the DMA controller's master clear.
Clear == <<Op("IoR", 1012, 0), Out8(13, 0)>>

MCPrograms ==
  <<Setup(70, 767, 1, 1), Clear \o Setup(70, 767, 1, 1),
    Setup(74, 767, 1, 2), Clear \o Setup(74, 767, 1, 2),
    Setup(134, 766, 2, 1), Clear \o Setup(134, 766, 2, 1),
    Setup(138, 766, 2, 2), Clear \o Setup(138, 766, 2, 2)>>

MCContent ==
  (66302 :> 16) @@ (66303 :> 17) @@ (66304 :> 34) @@ (66305 :> 51)
    @@ (4660 :> 68) @@ (1037000 :> 85) @@ (100000 :> 102)

MCCardBytes == <<201, 202, 203>>

MCFreeOps ==
  {Op("MemR", 4660, 0), Op("MemR", 66303, 0), Op("Fetch", 1037000, 0),
   Op("MemW", 100000, 119)}

\* For the run in which the processor polls the card meanwhile.
MCPolling == {Op("IoR", 1012, 0)}
=============================================================================
