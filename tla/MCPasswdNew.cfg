SPECIFICATION Spec
CONSTANTS
    Password = {stock, p1, p2}
    Default = stock
    MaxEntries = 3
INVARIANT NewPasswordInForce
