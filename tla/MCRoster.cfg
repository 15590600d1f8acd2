CONSTANTS
  a = a
  b = b
  Bots = {a, b}
  Statuses = {"lobby", "room"}
  FirstStatus = "lobby"
  Policies = {"accept", "refuse"}
  Scenarios <- MCScenarios
SPECIFICATION FairSpec
INVARIANTS
  FriendsOfTheService
  MatesOfTheClan
PROPERTIES
  ViewsAgree
