SPECIFICATION Spec
PROPERTY TpsShutdownStops
PROPERTY ConfirmationShutdownStops
PROPERTY RequesterShutdownStops
\* Each worker's loop really ends on shutdown, and the salt's clock stops.
CHECK_DEADLOCK FALSE
