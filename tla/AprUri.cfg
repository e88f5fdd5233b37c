CONSTANT
  Char = {"http", "https", "userid", "user", "d", "passwd", "pa", "swd",
          "host", "host.", "80", "path", "~path", "query", "query&query",
          "crud", "frag", "baby", ":", "/", "@", "?", "#", "["}
  Letter = {"http", "https"}
  Digit = {"80"}
SPECIFICATION Spec
INVARIANTS
  BufferSuffices
  RoundTrip
  TableTells
