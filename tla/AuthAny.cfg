CONSTANTS
  Builds = {"2.2", "2.4"}
  Users = {"", "guest", "bob", "other"}
  Passwords = {"", "right", "wrong"}
SPECIFICATION AuthSpec
INVARIANTS
  AskedThenServed
  CertificateIsEnough
  OnlyTheAuthenticated
