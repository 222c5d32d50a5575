\* The run rio; see MCRio for the inputs. The buffers have the same size, as
\* RIO_BUFSIZE and MAXLINE have.
CONSTANTS
  Inputs <- MCInputs
  NL = 0
  MaxInput = 6
  BufSize = 3
  MaxLine = 3
SPECIFICATION Spec
\* A caller stops when it has its request or the relay is over.
CHECK_DEADLOCK FALSE
INVARIANTS
  TypeOK
PROPERTIES
  StreamSpec
