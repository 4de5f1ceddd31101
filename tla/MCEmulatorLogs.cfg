\* Three lines of stderr: an error, its continuation and what ends it, or an
\* oversize line anywhere; one line of stdout, which may be oversize.
CONSTANTS
    MaxOut = 1
    MaxErr = 3
SPECIFICATION LogsFairSpec
INVARIANTS LogsTypeOK LastErrorReported
PROPERTY ExitErrDelivered
