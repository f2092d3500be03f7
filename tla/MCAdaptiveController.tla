------------------------ MODULE MCAdaptiveController ------------------------
EXTENDS AdaptiveController

\* A slow, a fast and a very fast sample, and one that took no time.
MCVelocities == {1, 2, 4, Infinite}
=============================================================================
