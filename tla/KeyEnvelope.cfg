SPECIFICATION FairSpec
CONSTANTS
    Container = {c1, c2}
    Volume = {v1}
    Key = {k1, k2, k3}
    EnvKey = {k1}
    NoKey = NoKey
    Torn = Torn
    Malformed = Malformed
    Installs <- VerifiableInstalls
INVARIANT CredentialsReadable
PROPERTIES SealedByDurableFile BoundForLife BootEnds
