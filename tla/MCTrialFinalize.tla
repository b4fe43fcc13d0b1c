-------------------------- MODULE MCTrialFinalize --------------------------
(* Small instances of TrialFinalize for TLC.                               *)
EXTENDS TrialFinalize

CONSTANTS a1, a2  \* two assets

\* Two recordings, or a recording beside an asset deposited by an async job
MCMixed == {{}, {a1}}
\* Two assets deposited by async jobs
MCBothStored == {{a1, a2}}
=============================================================================
