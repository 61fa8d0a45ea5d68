CONSTANTS
  trip = trip
  stop = stop
  Trips <- MCTrips
  Stops <- MCStops
  MaxPending = 2
SPECIFICATION Spec
PROPERTIES
  NaturalClosureStands
