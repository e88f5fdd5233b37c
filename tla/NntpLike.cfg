CONSTANTS
  Line = {"LIST", "GROUP"}
  Welcome = "200"
  MaxLines = 3
  Capacity = 2
SPECIFICATION Spec
INVARIANTS
  HandshakeFirst
PROPERTIES
  TestClientServed
  WorkerReleased
  ImplementsGreetingEcho
