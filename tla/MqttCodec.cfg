SPECIFICATION Spec
CONSTANTS
    Packs <- MCPacks
    MaxSent = 2
    MaxPackLength = 100000
 
PROPERTY Delivered
\* The stream ends after MaxSent packs, or with the connection.
CHECK_DEADLOCK FALSE
