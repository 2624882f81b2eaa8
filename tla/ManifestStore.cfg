\* Three calls: a durable manifest, one not yet durable and one in progress.
SPECIFICATION Spec
CONSTANT MaxWrites = 3
INVARIANTS NeverTorn AcknowledgedSurvives OnlyFailuresLitter
PROPERTY ImplementsRegister
