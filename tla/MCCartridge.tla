----------------------------- MODULE MCCartridge -----------------------------
\* Instances of Cartridge for TLC: every controller, with and without RAM and battery.
EXTENDS Cartridge

Cart(mbc, roms, rams, battery) ==
    [mbc |-> mbc, roms |-> roms, rams |-> rams, battery |-> battery]

AllCarts ==
    {Cart(m, 4, 1, TRUE) : m \in Controllers \ {"MBC0", "MMM01"}}
        \cup {Cart("MBC0", 2, 0, FALSE), Cart("MMM01", 8, 1, TRUE), Cart("MBC1", 8, 0, FALSE),
              Cart("MBC3", 2, 0, TRUE),
              Cart("MBC5", 8, 2, FALSE), Cart("MBC1", 4, 2, TRUE), Cart("MBC3", 4, 2, TRUE)}

SaveCarts == {Cart("MBC5", 2, 1, TRUE)}
=============================================================================
