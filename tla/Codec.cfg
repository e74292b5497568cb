SPECIFICATION Spec
CONSTANT Clients <- AllClients
INVARIANTS RoundTrip OnBoundary TruncationIsTold ExpectTells CompatIsOldFormat NoShorterForm
PROPERTY LookAheadAgrees
