CONSTANTS
  Programs <- PassingPrograms
  WordModulus = 4096
VIEW View
SPECIFICATION Spec
INVARIANTS
  TypeOK
  ReadsFindTheirCell
  NothingElseIsWritten
PROPERTIES
  ImplementsObjectStore
