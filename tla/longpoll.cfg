SPECIFICATION FairSpec
CONSTANTS
    Poll = {p1, p2}
    None = None
    Command = {c1}
    MaxWaiters = 2
    MaxSecrets = 2
    MaxLosses = 2
INVARIANTS NoLostWakeUp OneWaiter
PROPERTY CommandsAreDelivered
