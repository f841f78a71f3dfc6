---------------------------- MODULE GatewayProtos ----------------------------
(***************************************************************************)
(* The protocol as the gateway's generated code has it: the messages of    *)
(* USERS and DEVICES and the client stubs.  The services have generated    *)
(* theirs apart (ServiceProtos).                                           *)
(***************************************************************************)
EXTENDS Wire

-----------------------------------------------------------------------------
(* users.proto *)

Token == <<Field("stringToken", "string")>>

RegisterUserResponse == <<Field("user", "User"), Field("token", "Token")>>

User ==
  <<Field("user_id", "string"), Field("username", "string"),
    Field("email", "string"), Field("password", "string"),
    Field("profile", "Profile"), Field("deleted", "bool")>>

GetAllUsersResponse == <<Field("users", "User")>>

GetByFieldRequest == <<Field("get_by_field", "string")>>

LoginRequest == <<Field("email", "string"), Field("password", "string")>>

CreateUserReuest ==
  <<Field("username", "string"), Field("email", "string"),
    Field("password", "string"), Field("profile", "Profile"),
    Field("deleted", "bool")>>

UpdateUserReuqest == <<Field("user", "User")>>

Profile == <<Field("name", "string"), Field("address", "string")>>

GetUsersByAddressRequest == <<Field("address", "string")>>

GetAllUsersRequest == <<Field("pagination", "int32"), Field("limit", "int32")>>

Response == <<Field("message", "string")>>

-----------------------------------------------------------------------------
(* devices.proto *)

Device ==
  <<Field("id", "string"), Field("name", "string"), Field("type", "string"),
    Field("status", "string"), Field("location", "string")>>

CreateDeviceRequest == <<Field("device", "Device")>>

CreateDeviceResponse == <<Field("device", "Device")>>

UpdateDeviceRequest == <<Field("device", "Device")>>

UpdateDeviceResponse == <<Field("device", "Device")>>

GetDeviceRequest == <<Field("id", "string")>>

GetDeviceResponse == <<Field("device", "Device")>>

DeleteDeviceRequest == <<Field("id", "string")>>

DeleteDeviceResponse == <<Field("success", "bool")>>

GetAllDevicesRequest == <<Field("page", "int32"), Field("limit", "int32")>>

GetAllDevicesResponse == <<Field("devices", "Device")>>

-----------------------------------------------------------------------------
(* The types of each file, and its client stub: what a method sends and     *)
(* expects.                                                                  *)

UsersTypes ==
  [Token |-> Token, RegisterUserResponse |-> RegisterUserResponse,
   User |-> User, GetAllUsersResponse |-> GetAllUsersResponse,
   GetByFieldRequest |-> GetByFieldRequest, LoginRequest |-> LoginRequest,
   CreateUserReuest |-> CreateUserReuest,
   UpdateUserReuqest |-> UpdateUserReuqest, Profile |-> Profile,
   GetUsersByAddressRequest |-> GetUsersByAddressRequest,
   GetAllUsersRequest |-> GetAllUsersRequest, Response |-> Response]

DevicesTypes ==
  [Device |-> Device, CreateDeviceRequest |-> CreateDeviceRequest,
   CreateDeviceResponse |-> CreateDeviceResponse,
   UpdateDeviceRequest |-> UpdateDeviceRequest,
   UpdateDeviceResponse |-> UpdateDeviceResponse,
   GetDeviceRequest |-> GetDeviceRequest,
   GetDeviceResponse |-> GetDeviceResponse,
   DeleteDeviceRequest |-> DeleteDeviceRequest,
   DeleteDeviceResponse |-> DeleteDeviceResponse,
   GetAllDevicesRequest |-> GetAllDevicesRequest,
   GetAllDevicesResponse |-> GetAllDevicesResponse]

UsersServiceClient ==
  [RegisterUser |-> [in |-> "CreateUserReuest", out |-> "Response"],
   LoginUser |-> [in |-> "LoginRequest", out |-> "RegisterUserResponse"],
   GetById |-> [in |-> "GetByFieldRequest", out |-> "User"],
   GetByUsername |-> [in |-> "GetByFieldRequest", out |-> "User"],
   GetByEmail |-> [in |-> "GetByFieldRequest", out |-> "User"],
   UpdateUser |-> [in |-> "UpdateUserReuqest", out |-> "Response"],
   GetAllUsers |-> [in |-> "GetAllUsersRequest", out |-> "GetAllUsersResponse"],
   DeleteUserById |-> [in |-> "GetByFieldRequest", out |-> "Response"],
   GetUsersByAddress |-> [in |-> "GetUsersByAddressRequest", out |-> "GetAllUsersResponse"]]

DeviceServiceClient ==
  [CreateDevice |-> [in |-> "CreateDeviceRequest", out |-> "CreateDeviceResponse"],
   UpdateDevice |-> [in |-> "UpdateDeviceRequest", out |-> "UpdateDeviceResponse"],
   GetDevice |-> [in |-> "GetDeviceRequest", out |-> "GetDeviceResponse"],
   DeleteDevice |-> [in |-> "DeleteDeviceRequest", out |-> "DeleteDeviceResponse"],
   GetAllDevices |-> [in |-> "GetAllDevicesRequest", out |-> "GetAllDevicesResponse"]]

\* The names under which they are called.
UsersService_FullMethodNames ==
  [m \in DOMAIN UsersServiceClient |-> <<"UsersService", m>>]

DeviceService_FullMethodNames ==
  [m \in DOMAIN DeviceServiceClient |-> <<"devices.DeviceService", m>>]

=============================================================================
