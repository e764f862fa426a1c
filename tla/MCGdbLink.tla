----------------------------- MODULE MCGdbLink -----------------------------
\* Two registers, one of them the DUT's; a memory of four bytes and commands of
\* at most two, so that an image takes one command, exactly two, or two and a
\* short one.
EXTENDS GdbLink

MCImages == {<<>>, <<1>>, <<1, 2>>, <<1, 2, 0>>, <<2, 1, 2, 1>>}
\* '$', '#', '}', '*', and a digit.
MCNoise == {36, 35, 125, 42, 49}
=============================================================================
