\* One session: the pumps, errChan and the handler's teardown.  The session
\* really ends (handler returned, pumps done), hence no deadlock check.
CONSTANTS
    MaxMsgs = 2
SPECIFICATION FairSpec
INVARIANT TypeOK
PROPERTY SessionTearsDown
PROPERTY MessagesForwarded
CHECK_DEADLOCK FALSE
