\* One of the programs at the end of MCMemoryAccess.  All but AddressTakenTwice, which
\* violates the invariant ReadsFindTheirCell, violate ImplementsObjectStore.
CONSTANTS
  Programs <- StructBehindScalar
  WordModulus = 4096
VIEW View
SPECIFICATION Spec
PROPERTIES
  ImplementsObjectStore
