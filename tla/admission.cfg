SPECIFICATION Spec
CONSTANTS
    MaxInt = 100
    Images <- MCImages
    FirstImages <- MCFirstImages
    Fields = {"image", "email", "clusterCert", "caCert", "client", "cert", "tag",
              "immutable", "access", "storage", "volumes", "env"}
    Contents = {"absent", "renamed", "several", "foreign"}
    MaxEdits = 2
CHECK_DEADLOCK FALSE
INVARIANT TypeOK
INVARIANT ValidIsBuildable
INVARIANT MountedIsExpected
INVARIANT NeverLockedOut
INVARIANT FreshIsAccepted
PROPERTY NeverDowngraded
