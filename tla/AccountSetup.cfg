CONSTANTS
    Handlers = {h1, h2}
    Passwords = {admin, medium, strong}
    EnvPassword = admin
    Initial = admin
    LongEnough = {medium, strong}
    Strong = {strong}
    None = None
    MaxSecrets = 3
    MaxCrashes = 2
SPECIFICATION Spec
PROPERTIES SetupTakesEffect
