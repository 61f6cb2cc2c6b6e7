--------------------------- MODULE MCProviderCall ---------------------------
EXTENDS ProviderCall, TLC
CONSTANTS r1, r2
\* A native timeout of 60 s for the runner's request; the other's provider has
\* none and may hang for ever.  One unit of time is five seconds.
Mixed == (r1 :> 12) @@ (r2 :> 0)
\* The service calls a provider with a native timeout of 60 s.
Equal == (r1 :> 12) @@ (r2 :> 12)
=============================================================================
