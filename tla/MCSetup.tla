------------------------------- MODULE MCSetup -------------------------------
EXTENDS Setup

\* Up to and beyond the largest MTU, and two that wrap around in 32 bits.
SomeMtus == 0 .. 8 \cup {17, 20}

\* Nothing, less than a bit per second, some, and more than fits.
SomeRates == {-1, 0, 1, 2, 5, 90}
SomeSizes == 0 .. 34

\* START does not fit, fits with little room, and all of it fits.
SomePaths == {2, 4, 7}

\* The sizes of the code, and a rate of half a bit per second.
RealMtus == {1500, 9001}
RealPaths == {9001}
RealSizes == {0, 1, 1448, 100000}
SlowRates == {1, 190}
=============================================================================
