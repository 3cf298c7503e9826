\* The API container on an empty PostgreSQL database
SPECIFICATION Spec
PROPERTY ApiStarts
CHECK_DEADLOCK FALSE
