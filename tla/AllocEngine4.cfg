SPECIFICATION Spec
CONSTANTS
    Addrs = {1, 2, 3}
    Pools <- TwoPools
    Clients <- TwoMachines
    Reservations <- Reserved
    ReservationMode = "all"
    MatchClientId = "yes"
    Valid = 1
    Probation = 1
    Hold = 0
    MaxDrift = 1
INVARIANTS
    TypeOK
    NoDoubleAssignment
    OfferIsGranted
    FreeAddressIsFound
    DeclinedIsCounted
    
PROPERTY
    ProbationIsKept
