\* The bounds are beside the instances.
SPECIFICATION Spec
PROPERTIES Reclaimed IdleExpires GracefulStops
