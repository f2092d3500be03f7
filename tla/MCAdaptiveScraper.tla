-------------------------- MODULE MCAdaptiveScraper --------------------------
EXTENDS AdaptiveScraper

\* Two finite velocities, and AdaptiveController's Infinite, which is -1.
MCVelocities == {1, 2, -1}
=============================================================================
